---- MODULE Spec2Model ----
(***************************************************************************)
(* Crewmeister integration: the session client (api.py), the status        *)
(* coordinator (coordinator.py), the stamp buttons (button.py) and the     *)
(* create_stamp service handler (__init__.py).                             *)
(*                                                                         *)
(* One step of the model is the code a coroutine runs between two network  *)
(* awaits: asyncio only switches tasks where a coroutine really suspends,  *)
(* and the only suspension points of this code are the HTTP calls (the     *)
(* login POST and the authorized request).  The server's answer is the     *)
(* input of the step that resumes the coroutine.                           *)
(***************************************************************************)
EXTENDS Integers, Sequences, FiniteSets, TLC

VARIABLES
    now,               \* datetime.now(timezone.utc), seconds since 2024-05-02T00:00:00Z
    token,             \* CrewmeisterClient._token
    token_payload,     \* CrewmeisterClient._token_payload
    token_expiration,  \* CrewmeisterClient._token_expiration
    identity,          \* CrewmeisterClient._identity
    coord,             \* CrewmeisterStatusCoordinator.data and its refresh bookkeeping
    setup,             \* progress of async_setup_entry
    proc,              \* the running coroutines: the coordinator's refresh and the user's action
    account,           \* the id claims the auth endpoint writes into this user's tokens
    call,              \* a call of a pure function: its argument and what it returned
    absence_types,     \* CrewmeisterClient._absence_types
    created            \* history: the stampType of the stamp the last successful
                       \* button press or service call created, "" before the
                       \* first; kept only where a specification starts it at ""

vars == <<now, token, token_payload, token_expiration, identity, coord, setup, proc,
          account, call, absence_types, created>>

(***************************************************************************)
(* Bounds                                                                  *)
(***************************************************************************)
MaxNow == 1

(***************************************************************************)
(* Program constants                                                       *)
(***************************************************************************)
TOKEN_REFRESH_MARGIN == 300

STAMP_TYPE_START_WORK == "START_WORK"
STAMP_TYPE_CLOCK_OUT == "CLOCK_OUT"
STAMP_TYPE_START_BREAK == "START_BREAK"
STAMP_TYPES == {STAMP_TYPE_START_WORK, STAMP_TYPE_START_BREAK, STAMP_TYPE_CLOCK_OUT}

Procs == {"coordinator", "user"}

(***************************************************************************)
(* JSON values as the code sees them: absent/None, an int, or a string.    *)
(***************************************************************************)
JNone == [t |-> "none", i |-> 0, s |-> ""]
JInt(n) == [t |-> "int", i |-> n, s |-> ""]
JStr(x) == [t |-> "str", i |-> 0, s |-> x]

\* The strings of the model that Python's int() accepts, with their values.
NumericStrings == {"7", "42"}
IntOfString(x) == CASE x = "7" -> 7 [] x = "42" -> 42 [] OTHER -> 0

\* Python truthiness of a JSON value (None, 0 and "" are falsy).
Truthy(v) == \/ v.t = "int" /\ v.i # 0
             \/ v.t = "str" /\ v.s # ""

(***************************************************************************)
(* Stamps (raw JSON mappings of the API) and the values the server sends.  *)
(***************************************************************************)
NoStamp ==
    [present |-> FALSE, stampType |-> "", stampStatus |-> "", id |-> JNone,
     chainStartStampId |-> JNone, chain_start_stamp_id |-> JNone,
     allocationDate |-> JNone]

\* The stamps the server may return as the latest one: every stamp type and
\* status, with the shapes of (id, chainStartStampId, allocationDate) the
\* button tells apart: the first stamp of a chain that carries only its id,
\* a stamp with id and chain id, a chain id that is no number beside an id,
\* and stamps from which no chain id can be read, with and without an
\* allocation date.  The API writes its keys in camelCase, so the snake_case
\* key the button also looks at is always absent.
StampShapes ==
    { <<JInt(42), JNone, JStr("2024-05-01")>>,
      <<JInt(42), JInt(7), JNone>>,
      <<JInt(42), JStr("x"), JStr("2024-05-01")>>,
      <<JNone, JStr("x"), JStr("2024-05-01")>>,
      <<JNone, JNone, JNone>> }

Stamps ==
    { [present |-> TRUE, stampType |-> ty, stampStatus |-> ss, id |-> sh[1],
       chainStartStampId |-> sh[2], chain_start_stamp_id |-> JNone,
       allocationDate |-> sh[3]] :
        ty \in STAMP_TYPES, ss \in {"OPEN", "CLOSED"}, sh \in StampShapes }

\* timestamp_utc.date().isoformat() for the clock range of the model.
DateOf(t) == IF t < 86400 THEN "2024-05-02" ELSE "2024-05-03"

(***************************************************************************)
(* coordinator.py                                                          *)
(***************************************************************************)
\* Variant: the status of the stamp is not looked at.
_derive_status_any_status(stamp) ==
    IF ~stamp.present THEN "clocked_out"
    ELSE IF stamp.stampType = STAMP_TYPE_START_BREAK THEN "on_break"
    ELSE IF stamp.stampType = STAMP_TYPE_START_WORK THEN "clocked_in"
    ELSE "clocked_out"

_derive_status(stamp) ==
    IF ~stamp.present THEN "clocked_out"
    ELSE IF stamp.stampStatus = "OPEN" /\ stamp.stampType = STAMP_TYPE_START_BREAK
         THEN "on_break"
    ELSE IF stamp.stampStatus = "OPEN" /\ stamp.stampType = STAMP_TYPE_START_WORK
         THEN "clocked_in"
    ELSE IF stamp.stampType = STAMP_TYPE_CLOCK_OUT THEN "clocked_out"
    ELSE "clocked_out"

\* coordinator.data before the first successful refresh (None).
NoData ==
    [has |-> FALSE, latest_stamp |-> NoStamp, status |-> "None",
     is_clocked_in |-> FALSE, is_on_break |-> FALSE]

\* Variant: a break counts as clocked in.
Snapshot_break_is_work(stamp) ==
    LET status == _derive_status(stamp) IN
    [has |-> TRUE, latest_stamp |-> stamp, status |-> status,
     is_clocked_in |-> (status # "clocked_out"),
     is_on_break |-> (status = "on_break")]

\* The mapping _async_update_data returns for the fetched stamp.
Snapshot(stamp) ==
    LET status == _derive_status(stamp) IN
    [has |-> TRUE, latest_stamp |-> stamp, status |-> status,
     is_clocked_in |-> (status = "clocked_in"),
     is_on_break |-> (status = "on_break")]

(***************************************************************************)
(* binary_sensor.py                                                        *)
(***************************************************************************)
\* Variant: a break counts as working.
is_on_during_break(data) ==
    IF ~data.has THEN "None"
    ELSE IF data.is_on_break THEN "True"
    ELSE IF data.is_clocked_in THEN "True" ELSE "False"

\* CrewmeisterWorkingBinarySensor.is_on read from coordinator.data: None
\* without a snapshot, False during a break, else the clocked-in flag.
is_on(data) ==
    IF ~data.has THEN "None"
    ELSE IF data.is_on_break THEN "False"
    ELSE IF data.is_clocked_in THEN "True" ELSE "False"

(***************************************************************************)
(* button.py                                                               *)
(***************************************************************************)
_coerce_int(value) ==
    IF value.t = "int" THEN value
    ELSE IF value.t = "str" /\ value.s \in NumericStrings
         THEN JInt(IntOfString(value.s))
    ELSE JNone

_extract_chain_start(latest_stamp) ==
    IF ~latest_stamp.present THEN JNone
    ELSE LET raw_value == IF latest_stamp.chainStartStampId = JNone
                          THEN latest_stamp.chain_start_stamp_id
                          ELSE latest_stamp.chainStartStampId
             value == _coerce_int(raw_value)
         IN IF value # JNone THEN value ELSE _coerce_int(latest_stamp.id)

\* Variant: START_BREAK is refused only when clocked out.
_ensure_valid_transition_break(stamp_type, status) ==
    IF status = "None" THEN TRUE
    ELSE IF stamp_type = STAMP_TYPE_START_WORK THEN status # "clocked_in"
    ELSE IF stamp_type = STAMP_TYPE_START_BREAK THEN status # "clocked_out"
    ELSE IF stamp_type = STAMP_TYPE_CLOCK_OUT THEN status \in {"clocked_in", "on_break"}
    ELSE TRUE

\* TRUE when _ensure_valid_transition returns, FALSE when it raises.
_ensure_valid_transition(stamp_type, status) ==
    IF status = "None" THEN TRUE
    ELSE IF stamp_type = STAMP_TYPE_START_WORK THEN status # "clocked_in"
    ELSE IF stamp_type = STAMP_TYPE_START_BREAK THEN status = "clocked_in"
    ELSE IF stamp_type = STAMP_TYPE_CLOCK_OUT THEN status \in {"clocked_in", "on_break"}
    ELSE TRUE

\* The kwargs of async_create_stamp; JNone stands for a key the dict lacks.
NoKwargs == [chain_start_stamp_id |-> JNone, allocation_date |-> JNone]

\* Variant: START_WORK continues the chain of the latest stamp in every status.
_prepare_stamp_kwargs_always(stamp_type, status, data) ==
    LET latest_stamp == IF data.has THEN data.latest_stamp ELSE NoStamp
        chain_start == _extract_chain_start(latest_stamp)
        allocation_date == IF latest_stamp.present THEN latest_stamp.allocationDate ELSE JNone
    IN  IF chain_start # JNone
        THEN [chain_start_stamp_id |-> chain_start,
              allocation_date |-> IF allocation_date.t = "str" /\ Truthy(allocation_date)
                                  THEN allocation_date ELSE JNone]
        ELSE NoKwargs

_prepare_stamp_kwargs(stamp_type, status, data) ==
    LET latest_stamp == IF data.has THEN data.latest_stamp ELSE NoStamp
        chain_start == _extract_chain_start(latest_stamp)
        allocation_date == IF latest_stamp.present THEN latest_stamp.allocationDate ELSE JNone
        include_chain ==
            IF stamp_type = STAMP_TYPE_START_WORK THEN status = "on_break"
            ELSE stamp_type \in {STAMP_TYPE_START_BREAK, STAMP_TYPE_CLOCK_OUT}
    IN  IF include_chain /\ chain_start # JNone
        THEN [chain_start_stamp_id |-> chain_start,
              allocation_date |-> IF allocation_date.t = "str" /\ Truthy(allocation_date)
                                  THEN allocation_date ELSE JNone]
        ELSE NoKwargs

(***************************************************************************)
(* api.py: token handling                                                  *)
(***************************************************************************)
\* The id claims of a token: none.
NoClaims == [userId |-> JNone, sub |-> JNone, crewId |-> JNone]

\* A decoded payload: the expiry and the id claims ids.
Claims(exp, ids) ==
    [exp |-> exp, userId |-> ids.userId, sub |-> ids.sub, crewId |-> ids.crewId]

EmptyPayload == Claims(JNone, NoClaims)

\* A token string as decode_jwt_payload sees it: the number of its
\* dot-separated segments and what its second segment is: "json" (base64url
\* of a JSON object, the claims), "bad_base64" (urlsafe_b64decode raises),
\* "not_json" (decodes to text that is no JSON), "not_utf8" (decodes to
\* bytes that are no UTF-8 text), "none" (there is no second segment).
Token(segments, middle, claims) ==
    [set |-> TRUE, segments |-> segments, middle |-> middle, claims |-> claims]
NoToken == [set |-> FALSE, segments |-> 0, middle |-> "none", claims |-> EmptyPayload]
Jwt(claims) == Token(3, "json", claims)
OpaqueToken == Token(1, "none", EmptyPayload)

\* json.loads(decoded) raises UnicodeDecodeError, which is a ValueError but
\* no json.JSONDecodeError, so decode_jwt_payload lets it through.
DecodeRaises(tok) == tok.segments = 3 /\ tok.middle = "not_utf8"

\* Variant: the claims of the token are never read.
decode_jwt_payload_empty(tok) == EmptyPayload

\* The value decode_jwt_payload returns when it returns.
decode_jwt_payload(tok) ==
    IF tok.segments # 3 THEN EmptyPayload
    ELSE IF tok.middle = "bad_base64" THEN EmptyPayload
    ELSE IF tok.middle = "not_json" THEN EmptyPayload
    ELSE tok.claims

_extract_token_expiration(payload) ==
    IF payload.exp = JNone THEN JNone
    ELSE IF payload.exp.t = "int" THEN payload.exp
    ELSE IF payload.exp.s \in NumericStrings THEN JInt(IntOfString(payload.exp.s))
    ELSE JNone

\* Variant: a client without token is taken to be logged in.
TokenMissing_never(tok) == FALSE

\* `not self._token` of async_ensure_logged_in.
TokenMissing(tok) == ~tok.set

\* Variant: a token that expires exactly at the margin is refreshed too.
NeedsLogin_inclusive(tok, expiration, t) ==
    \/ ~tok.set
    \/ expiration = JNone
    \/ expiration.i - t <= TOKEN_REFRESH_MARGIN

\* The three conditions of async_ensure_logged_in under which it calls
\* async_login.
NeedsLogin(tok, expiration, t) ==
    \/ TokenMissing(tok)
    \/ expiration = JNone
    \/ expiration.i - t < TOKEN_REFRESH_MARGIN

(***************************************************************************)
(* api.py: the identity                                                    *)
(***************************************************************************)
\* CrewmeisterClient._identity when it is None.
NoIdentity == [set |-> FALSE, user_id |-> 0, crew_id |-> 0]

\* The ids async_get_identity works on: JNone for an id not found.
NoIds == [user_id |-> JNone, crew_id |-> JNone]

\* The strings of the model that start with "user:", and what follows it.
UserPrefixed == {"user:7", "user:x"}
UserSuffix(x) == CASE x = "user:7" -> "7" [] x = "user:x" -> "x" [] OTHER -> ""

\* The user id read from one claim: a digit string or an int is taken,
\* "user:<digits>" gives the digits, anything else gives nothing.
UserIdOfClaim(v) ==
    IF v.t = "str" /\ v.s \in NumericStrings THEN JInt(IntOfString(v.s))
    ELSE IF v.t = "str" /\ v.s \in UserPrefixed
         THEN IF UserSuffix(v.s) \in NumericStrings
              THEN JInt(IntOfString(UserSuffix(v.s))) ELSE JNone
    ELSE IF v.t = "int" THEN v
    ELSE JNone

\* The loop over the user keys goes on to the next key after a falsy value
\* and after a "user:" value whose rest is no number; every other value
\* ends the loop, whether it gave an id or not.
UserLoopContinues(v) ==
    \/ ~Truthy(v)
    \/ v.t = "str" /\ v.s \notin NumericStrings /\ v.s \in UserPrefixed
          /\ UserSuffix(v.s) \notin NumericStrings

CrewIdOfClaim(v) ==
    IF v.t = "str" /\ v.s \in NumericStrings THEN JInt(IntOfString(v.s))
    ELSE IF v.t = "int" THEN v
    ELSE JNone

\* _extract_identity_from_payload over the claim keys of the model: userId
\* and sub for the user, crewId for the crew.
_extract_identity_from_payload(payload) ==
    [user_id |-> IF ~UserLoopContinues(payload.userId) THEN UserIdOfClaim(payload.userId)
                 ELSE IF ~UserLoopContinues(payload.sub) THEN UserIdOfClaim(payload.sub)
                 ELSE JNone,
     crew_id |-> IF Truthy(payload.crewId) THEN CrewIdOfClaim(payload.crewId) ELSE JNone]

\* Variant: the cached identity is never used.
IdentityCached_never(ident) == FALSE

\* `if self._identity:` of async_get_identity.
IdentityCached(ident) == ident.set

\* Variant: the latest stamp is always fetched.
NeedsLookup_always(ids) == TRUE

\* `if not user_id or not crew_id:` before the stamp lookup.
NeedsLookup(ids) == ~Truthy(ids.user_id) \/ ~Truthy(ids.crew_id)

\* `if not user_id or not crew_id:` after the stamp lookup.
IdsMissing(ids) == ~Truthy(ids.user_id) \/ ~Truthy(ids.crew_id)

\* The ids after the lookup: what the claims gave, else what the stamp carries.
FillIds(ids, stamp, owner) ==
    IF stamp.present
    THEN [user_id |-> IF Truthy(ids.user_id) THEN ids.user_id ELSE owner.userId,
          crew_id |-> IF Truthy(ids.crew_id) THEN ids.crew_id ELSE owner.crewId]
    ELSE ids

\* Python's int() on an id: it raises ValueError on a string that is no number.
IntRaises(v) == v.t = "str" /\ v.s \notin NumericStrings
PyInt(v) == IF v.t = "int" THEN v.i ELSE IntOfString(v.s)

\* CrewmeisterIdentity(user_id=int(user_id), crew_id=int(crew_id), ...).
MakeIdentity(ids) ==
    [set |-> TRUE, user_id |-> PyInt(ids.user_id), crew_id |-> PyInt(ids.crew_id)]

\* Variant: every stamp type is let through.
ValidStampType_any(stamp_type) == TRUE

\* `stamp_type in STAMP_TYPES` of async_create_stamp.
ValidStampType(stamp_type) == stamp_type \in STAMP_TYPES

(***************************************************************************)
(* api.py: async_create_stamp builds the request body                      *)
(***************************************************************************)
NoJson ==
    [stampType |-> "", timestamp |-> 0, allocationDate |-> "",
     chainStartStampId |-> JNone, userId |-> 0, crewId |-> 0]

CreateStampPayload(ident, stamp_type, timestamp, chain_start_stamp_id, allocation_date, t) ==
    LET timestamp_utc == IF timestamp = JNone THEN t ELSE timestamp.i IN
    [stampType |-> stamp_type,
     timestamp |-> timestamp_utc,
     allocationDate |-> IF Truthy(allocation_date) THEN allocation_date.s
                        ELSE DateOf(timestamp_utc),
     chainStartStampId |-> chain_start_stamp_id,
     userId |-> ident.user_id, crewId |-> ident.crew_id]

(***************************************************************************)
(* The coroutines.  A coroutine is idle, waits for the answer to a login   *)
(* POST or to an authorized request, or is done (its handler has returned  *)
(* or raised and the caller has not yet looked at the outcome).            *)
(*   op          the handler that runs                                     *)
(*   why         which call of async_login is awaited: the one of          *)
(*               async_ensure_logged_in or the one after a 401             *)
(*   retry       retry_on_unauthorized of the running async_api_request    *)
(*   req         the request being sent (bearer: the token of the          *)
(*               Authorization header, json: the body)                     *)
(*   seen        coordinator.data as the button read it                    *)
(*   log         the network calls of the handler and their answers        *)
(*   client_err  the exception that left the client, "" when none          *)
(*   result      "ok" or the exception that leaves the handler             *)
(*   stage       which request of the operation is running: "identity"     *)
(*               for the stamp lookup of async_get_identity                *)
(*   ids         user_id and crew_id, the locals of async_get_identity     *)
(*   ret         the identity async_get_identity returned                  *)
(*   todo        the absence type ids _absences_to_events has yet to name  *)
(*   returns     what async_get_absence_type returned so far               *)
(***************************************************************************)
CrewmeisterErrors ==
    {"CrewmeisterError", "CrewmeisterAuthError", "CrewmeisterConnectionError",
     "CrewmeisterMissingIdentity"}

\* The headers keyword of async_api_request: not passed, or the caller's
\* mapping with the Authorization entry it holds (NoToken when it has none).
NoHeaders == [given |-> FALSE, authorization |-> NoToken]
Headers(authorization) == [given |-> TRUE, authorization |-> authorization]

\* bearer is the token of the Authorization header that went out.
NoRequest == [method |-> "", bearer |-> NoToken, json |-> NoJson, headers |-> NoHeaders]

Idle ==
    [op |-> "none", pc |-> "idle", stamp_type |-> "", why |-> "", retry |-> FALSE,
     req |-> NoRequest, rejected |-> NoToken, seen |-> NoData, log |-> <<>>,
     client_err |-> "",
     result |-> "", stage |-> "", ids |-> NoIds, ret |-> NoIdentity,
     todo |-> <<>>, returns |-> <<>>]

Event(e, status) == [e |-> e, status |-> status]

\* The value of the history variable created in a specification that keeps
\* no history of the stamps.
Untracked == "untracked"

\* Tokens the auth endpoint may issue at time t.
TokenLifetimes == {300}
IssuedTokens(t, ids) ==
    {OpaqueToken} \cup
    { Jwt(Claims(e, ids)) :
        e \in {JNone} \cup { JInt(t + ttl) : ttl \in TokenLifetimes } }

\* Answers to the login POST and to an authorized request.
LoginAnswers(t, ids) ==
    { [kind |-> "token", status |-> 200, token |-> tok] : tok \in IssuedTokens(t, ids) } \cup
    { [kind |-> "no_token", status |-> 200, token |-> NoToken] } \cup
    { [kind |-> "status", status |-> st, token |-> NoToken] : st \in {201, 401, 500} } \cup
    { [kind |-> k, status |-> 0, token |-> NoToken] : k \in {"client_error", "timeout"} }

\* The userId and crewId keys of a returned stamp.  Only async_get_identity
\* reads them, so only the answer to its lookup varies them: an owner
\* written as ints, as digit strings, with one of the two missing, with a
\* user id that is no number, and the stamp of another user of the crew (the
\* lookup asks for the latest stamp without a userId filter).
NoOwner == [userId |-> JNone, crewId |-> JNone]
Owners ==
    { NoOwner,
      [userId |-> JInt(7), crewId |-> JInt(42)],
      [userId |-> JStr("7"), crewId |-> JStr("42")],
      [userId |-> JInt(7), crewId |-> JNone],
      [userId |-> JNone, crewId |-> JInt(42)],
      [userId |-> JStr("abc"), crewId |-> JInt(42)],
      [userId |-> JInt(42), crewId |-> JInt(42)] }

LookupStamp ==
    [present |-> TRUE, stampType |-> STAMP_TYPE_START_WORK, stampStatus |-> "OPEN",
     id |-> JInt(42), chainStartStampId |-> JNone, chain_start_stamp_id |-> JNone,
     allocationDate |-> JStr("2024-05-01")]

\* Absence types.  async_get_absence_type returns None (NoInfo) or the
\* mapping the server sent; the body of a 200 answer is one of two mappings
\* or no mapping at all (a JSON list).
TypeIds == {1, 2}
NoInfo == [mapping |-> FALSE, name |-> ""]
AbsenceBodies ==
    { [mapping |-> TRUE, name |-> "Urlaub"],
      [mapping |-> TRUE, name |-> "Krank"],
      [mapping |-> FALSE, name |-> "list"] }

\* _absence_types after construction: {}.
NoAbsenceTypes == [type_id \in TypeIds |-> [has |-> FALSE, info |-> NoInfo]]

RequestAnswers(stage) ==
    { [kind |-> "status", status |-> st, stamp |-> NoStamp, owner |-> NoOwner,
       info |-> NoInfo] : st \in {401, 403, 500} } \cup
    { [kind |-> k, status |-> 0, stamp |-> NoStamp, owner |-> NoOwner,
       info |-> NoInfo] : k \in {"client_error", "timeout"} } \cup
    IF stage = "identity"
    THEN { [kind |-> "status", status |-> 200, stamp |-> NoStamp, owner |-> NoOwner,
            info |-> NoInfo] } \cup
         { [kind |-> "status", status |-> 200, stamp |-> LookupStamp, owner |-> owner,
            info |-> NoInfo] : owner \in Owners }
    ELSE IF stage = "absence_type"
    THEN { [kind |-> "status", status |-> 200, stamp |-> NoStamp, owner |-> NoOwner,
            info |-> body] : body \in AbsenceBodies }
    ELSE { [kind |-> "status", status |-> 200, stamp |-> stamp, owner |-> NoOwner,
            info |-> NoInfo] : stamp \in Stamps \cup {NoStamp} }

\* Variant: a 5xx answer to the login counts as a connectivity failure.
LoginFailure_server(ans) ==
    CASE ans.kind = "client_error" -> "CrewmeisterConnectionError"
      [] ans.kind = "timeout" -> "TimeoutError"
      [] ans.status >= 500 -> "CrewmeisterConnectionError"
      [] OTHER -> "CrewmeisterAuthError"

\* The exception async_login raises for an answer that yields no token:
\* aiohttp.ClientError becomes CrewmeisterConnectionError, the
\* asyncio.TimeoutError of async_timeout is no ClientError and passes
\* through, every status but 200 and a body without token is an auth error.
LoginFailure(ans) ==
    CASE ans.kind = "client_error" -> "CrewmeisterConnectionError"
      [] ans.kind = "timeout" -> "TimeoutError"
      [] OTHER -> "CrewmeisterAuthError"

\* Variant: a failed request is reported as the generic API error.
RequestFailure_generic(ans) ==
    IF ans.kind = "timeout" THEN "TimeoutError" ELSE "CrewmeisterError"

\* The exception async_api_request raises when the request gets no answer.
RequestFailure(ans) ==
    IF ans.kind = "timeout" THEN "TimeoutError" ELSE "CrewmeisterConnectionError"

\* Variant: a server error is retried like a 401.
ShouldRetry_server_error(status, retry) == status \in {401, 500} /\ retry

\* The condition under which async_api_request logs in again and retries.
ShouldRetry(status, retry) == status = 401 /\ retry

\* What the handler lets out when the client raises client_err: the
\* coordinator and the button wrap the client's own errors, the service
\* handler catches nothing.
HandlerOutcome(op, client_err) ==
    IF op = "refresh" /\ client_err \in CrewmeisterErrors THEN "UpdateFailed"
    ELSE IF op = "press" /\ client_err \in CrewmeisterErrors THEN "HomeAssistantError"
    ELSE client_err

Raise(rec, client_err) ==
    [rec EXCEPT !.pc = "done", !.client_err = client_err,
                !.result = HandlerOutcome(rec.op, client_err)]

\* headers.setdefault("Authorization", f"Bearer {self._token}"): the entry
\* of the mapping after it.
SetDefaultAuthorization(headers, tok) ==
    IF headers.authorization.set THEN headers.authorization ELSE tok

\* async_api_request from the headers to the await of the request
\* (api.py:182-194).  setdefault writes into the caller's own mapping.
SendRequest(rec, tok) ==
    [rec EXCEPT !.pc = "req_wait",
                !.req.bearer = SetDefaultAuthorization(rec.req.headers, tok),
                !.req.headers = IF @.given
                                THEN Headers(SetDefaultAuthorization(@, tok))
                                ELSE NoHeaders,
                !.log = Append(@, Event("send", 0))]

\* Variant: the retry passes the mapping of the first attempt on.
RetryHeaders_kept(headers) == headers

\* The headers keyword of the retrying call (api.py:201): kwargs.pop at
\* api.py:182 took it out of kwargs, so the retry passes none.
RetryHeaders(headers) == NoHeaders

\* async_api_request from its first line to its first await:
\* async_ensure_logged_in either awaits async_login or returns, and then the
\* headers are built from the current token and the request is sent.
BeginApiRequest(rec, retry, tok, expiration, t) ==
    IF NeedsLogin(tok, expiration, t)
    THEN [rec EXCEPT !.pc = "login_wait", !.why = "ensure", !.retry = retry,
                     !.log = Append(@, Event("login", 0))]
    ELSE SendRequest([rec EXCEPT !.retry = retry], tok)

\* isinstance(data, dict) of async_get_absence_type.
IsMapping(data) == data.mapping

\* Variant: the cache is never consulted.
AbsenceCached_never(cache, type_id) == FALSE

\* `type_id in self._absence_types` of async_get_absence_type.
AbsenceCached(cache, type_id) == cache[type_id].has

\* _absences_to_events from one await to the next: for each absence it
\* calls async_get_absence_type_name, which calls async_get_absence_type;
\* a cached type is answered at once, any other is fetched.
RECURSIVE _absences_to_events(_, _, _, _, _)
_absences_to_events(rec, cache, tok, expiration, t) ==
    IF rec.todo = <<>>
    THEN [rec EXCEPT !.pc = "done", !.result = "ok"]
    ELSE LET type_id == Head(rec.todo)
             called == [rec EXCEPT !.log = Append(@, Event("get_absence_type", type_id))]
         IN IF AbsenceCached(cache, type_id)
            THEN _absences_to_events(
                     [called EXCEPT !.todo = Tail(@),
                                    !.returns = Append(@, cache[type_id].info)],
                     cache, tok, expiration, t)
            ELSE BeginApiRequest(
                     [called EXCEPT !.stage = "absence_type", !.req.method = "GET",
                                    !.log = Append(@, Event("fetch", type_id))],
                     TRUE, tok, expiration, t)

\* async_get_absence_type returns info and the loop goes on.
AbsenceReturns(rec, info, cache, tok, expiration, t) ==
    _absences_to_events([rec EXCEPT !.todo = Tail(@), !.returns = Append(@, info)],
                        cache, tok, expiration, t)

\* client_err comes out of the request: async_get_absence_type catches
\* CrewmeisterError and returns None, every other caller lets it pass.
Throw(rec, client_err, cache, tok, expiration, t) ==
    IF rec.stage = "absence_type" /\ client_err \in CrewmeisterErrors
    THEN AbsenceReturns(rec, NoInfo, cache, tok, expiration, t)
    ELSE Raise(rec, client_err)

\* No pure function is being called.
NoCall == [fn |-> "", arg |-> NoStamp, ret |-> ""]

\* async_get_identity has the identity: it returns it, and inside
\* async_create_stamp the body is built and the POST goes out.
AfterIdentity(rec, ident, tok, expiration, t) ==
    IF rec.op = "create_stamp"
    THEN BeginApiRequest(
             [rec EXCEPT !.stage = "request", !.req.method = "POST",
                         !.req.json = CreateStampPayload(ident, rec.stamp_type, JNone,
                                                         JNone, JNone, t)],
             TRUE, tok, expiration, t)
    ELSE [rec EXCEPT !.pc = "done", !.result = "ok", !.ret = ident]

EntryIdentity == [set |-> TRUE, user_id |-> 1, crew_id |-> 1]
EntryPayloads == {EmptyPayload, Claims(JInt(300), NoClaims)}

AllIdle == \A q \in Procs : proc[q].pc = "idle"

Init ==
    /\ now = 0
    /\ token = NoToken
    /\ token_payload \in EntryPayloads
    /\ token_expiration = _extract_token_expiration(token_payload)
    /\ identity = EntryIdentity
    /\ coord = [data |-> NoData]
    /\ setup = [phase |-> "first_refresh", token_payload |-> token_payload, outcome |-> ""]
    /\ proc = [q \in Procs |-> Idle]
    /\ account = NoClaims
    /\ call = NoCall
    /\ absence_types = NoAbsenceTypes
    /\ created = Untracked

\* Time passes.
Tick ==
    /\ now < MaxNow
    /\ now' = now + 1
    /\ UNCHANGED <<token, token_payload, token_expiration, identity, coord, setup, proc,
                   account, call, absence_types, created>>

\* The coordinator starts _async_update_data: the first refresh of
\* async_setup_entry, a scheduled refresh or a requested one.
StartRefresh ==
    /\ AllIdle
    /\ setup.phase \in {"first_refresh", "loaded"}
    /\ identity.set
    /\ proc' = [proc EXCEPT !["coordinator"] =
                   BeginApiRequest([Idle EXCEPT !.op = "refresh", !.req.method = "GET"],
                                   TRUE, token, token_expiration, now)]
    /\ UNCHANGED <<now, token, token_payload, token_expiration, identity, coord, setup,
                   account, call, absence_types, created>>

\* CrewmeisterStampButton.async_press of the button for stamp_type.
Press(stamp_type) ==
    /\ AllIdle
    /\ setup.phase = "loaded"
    /\ identity.set
    /\ LET status == IF coord.data.has THEN coord.data.status ELSE "None"
           rec == [Idle EXCEPT !.op = "press", !.stamp_type = stamp_type,
                               !.seen = coord.data]
           kwargs == _prepare_stamp_kwargs(stamp_type, status, coord.data)
           json == CreateStampPayload(identity, stamp_type, JNone,
                                      kwargs.chain_start_stamp_id,
                                      kwargs.allocation_date, now)
       IN proc' = [proc EXCEPT !["user"] =
              IF ~_ensure_valid_transition(stamp_type, status)
              THEN [rec EXCEPT !.pc = "done", !.result = "HomeAssistantError"]
              ELSE BeginApiRequest([rec EXCEPT !.req.method = "POST", !.req.json = json],
                                   TRUE, token, token_expiration, now)]
    /\ UNCHANGED <<now, token, token_payload, token_expiration, identity, coord, setup,
                   account, call, absence_types, created>>

\* async_handle_create_stamp for a call with stamp_type and an optional
\* timestamp (the schema admits only the three stamp types).
ServiceTimestamps == {JNone, JInt(86400)}
Service(stamp_type, timestamp) ==
    /\ AllIdle
    /\ identity.set
    /\ LET rec == [Idle EXCEPT !.op = "service", !.stamp_type = stamp_type]
           json == CreateStampPayload(identity, stamp_type, timestamp, JNone, JNone, now)
       IN proc' = [proc EXCEPT !["user"] =
              IF setup.phase # "loaded"
              THEN [rec EXCEPT !.pc = "done", !.result = "HomeAssistantError"]
              ELSE BeginApiRequest([rec EXCEPT !.req.method = "POST", !.req.json = json],
                                   TRUE, token, token_expiration, now)]
    /\ UNCHANGED <<now, token, token_payload, token_expiration, identity, coord, setup,
                   account, call, absence_types, created>>

\* The answer to the login POST arrives: async_login stores the token or
\* raises, and its caller goes on to its next await.
LoginResponse(p) ==
    /\ proc[p].pc = "login_wait"
    /\ \E ans \in LoginAnswers(now, account) :
        LET rec == proc[p] IN
        IF ans.kind = "token"
        THEN LET payload == decode_jwt_payload(ans.token)
                 expiration == _extract_token_expiration(payload)
                 logged == [rec EXCEPT !.log = Append(@, Event("login_ok", 200))]
             IN /\ token' = ans.token
                /\ token_payload' = payload
                /\ token_expiration' = expiration
                /\ proc' = [proc EXCEPT ![p] =
                      IF rec.why = "ensure"
                      THEN SendRequest(logged, ans.token)
                      ELSE IF rec.why = "relogin"
                      THEN BeginApiRequest(logged, FALSE, ans.token, expiration, now)
                      ELSE [logged EXCEPT !.pc = "done", !.result = "ok"]]
        ELSE /\ proc' = [proc EXCEPT ![p] =
                  Throw([rec EXCEPT !.log = Append(@,
                             CASE ans.kind = "client_error" -> Event("login_client_error", 0)
                               [] ans.kind = "timeout" -> Event("login_timeout", 0)
                               [] OTHER -> Event("login_err", ans.status))],
                        LoginFailure(ans), absence_types, token, token_expiration, now)]
             /\ UNCHANGED <<token, token_payload, token_expiration>>
    /\ UNCHANGED <<now, identity, coord, setup, account, call, absence_types, created>>


\* Variant: a request rejected with a token that has been replaced in the
\* meantime is retried with the token in place.
ReloginOn401_if_unchanged(bearer, tok) == bearer = tok

\* Whether async_api_request awaits async_login() after a 401 it retries
\* (api.py:198-200): always, the token in place is not compared with the
\* one the request carried.
ReloginOn401(bearer, tok) == TRUE

\* Variant: only the button asks for a refresh.
RequestsRefresh_button_only(op) == op = "press"

\* The handlers that await coordinator.async_request_refresh() once
\* async_create_stamp has returned: async_press and the create_stamp service.
RequestsRefresh(op) == op \in {"press", "service"}

\* The answer to the authorized request arrives, one of answers.
RequestResponseOf(p, answers) ==
    /\ proc[p].pc = "req_wait"
    /\ \E ans \in answers :
        LET rec == [proc[p] EXCEPT !.log = Append(@,
                       IF ans.kind = "status" THEN Event("response", ans.status)
                       ELSE Event(ans.kind, 0))] IN
        IF ans.kind # "status"
        THEN /\ proc' = [proc EXCEPT ![p] =
                  Throw(rec, RequestFailure(ans), absence_types, token,
                        token_expiration, now)]
             /\ UNCHANGED <<coord, setup, identity, absence_types, created>>
        ELSE IF ShouldRetry(ans.status, rec.retry)
        THEN /\ proc' = [proc EXCEPT ![p] =
                  IF ReloginOn401(rec.req.bearer, token)
                  THEN [rec EXCEPT !.pc = "login_wait", !.why = "relogin",
                                   !.req.headers = RetryHeaders(@),
                                   !.rejected = rec.req.bearer,
                                   !.log = Append(@, Event("login", 0))]
                  ELSE BeginApiRequest([rec EXCEPT !.req.headers = RetryHeaders(@),
                                                   !.rejected = rec.req.bearer],
                                       FALSE, token, token_expiration, now)]
             /\ UNCHANGED <<coord, setup, identity, absence_types, created>>
        ELSE IF ans.status >= 400
        THEN /\ proc' = [proc EXCEPT ![p] =
                  Throw(rec, "CrewmeisterError", absence_types, token,
                        token_expiration, now)]
             /\ UNCHANGED <<coord, setup, identity, absence_types, created>>
        ELSE IF rec.stage = "identity"
        THEN \* async_get_identity has the latest stamp: it fills the gaps from
             \* the stamp's userId and crewId, and raises or caches the identity.
             LET ids == FillIds(rec.ids, ans.stamp, ans.owner)
                 filled == [rec EXCEPT !.ids = ids]
             IN /\ IF IdsMissing(ids)
                   THEN /\ proc' = [proc EXCEPT ![p] =
                                       Raise(filled, "CrewmeisterMissingIdentity")]
                        /\ UNCHANGED identity
                   ELSE IF IntRaises(ids.user_id) \/ IntRaises(ids.crew_id)
                   THEN /\ proc' = [proc EXCEPT ![p] = Raise(filled, "ValueError")]
                        /\ UNCHANGED identity
                   ELSE /\ identity' = MakeIdentity(ids)
                        /\ proc' = [proc EXCEPT ![p] =
                               AfterIdentity(filled, MakeIdentity(ids), token,
                                             token_expiration, now)]
                /\ UNCHANGED <<coord, setup, absence_types, created>>
        ELSE IF rec.op = "refresh"
        THEN \* _async_update_data publishes the snapshot; the first refresh
             \* lets async_setup_entry register the entry and its platforms.
             /\ proc' = [proc EXCEPT ![p] = [rec EXCEPT !.pc = "done", !.result = "ok"]]
             /\ coord' = [coord EXCEPT !.data = Snapshot(ans.stamp)]
             /\ setup' = [setup EXCEPT !.phase = "loaded", !.outcome = "True"]
             /\ UNCHANGED <<identity, absence_types, created>>
        ELSE IF rec.stage = "absence_type"
        THEN \* async_get_absence_type has the body: a mapping is stored and
             \* returned, anything else gives None.
             LET type_id == Head(rec.todo)
                 stored == IF IsMapping(ans.info)
                           THEN [absence_types EXCEPT
                                    ![type_id] = [has |-> TRUE, info |-> ans.info]]
                           ELSE absence_types
             IN /\ absence_types' = stored
                /\ proc' = [proc EXCEPT ![p] =
                       AbsenceReturns(rec, IF IsMapping(ans.info) THEN ans.info ELSE NoInfo,
                                      stored, token, token_expiration, now)]
                /\ UNCHANGED <<coord, setup, identity, created>>
        ELSE IF RequestsRefresh(rec.op)
        THEN \* async_create_stamp returns; the handler awaits
             \* coordinator.async_request_refresh().
             /\ proc' = [proc EXCEPT ![p] =
                  [rec EXCEPT !.pc = "done", !.result = "ok",
                              !.log = Append(@, Event("request_refresh", 0))]]
             /\ created' = IF created = Untracked THEN created ELSE rec.stamp_type
             /\ UNCHANGED <<coord, setup, identity, absence_types>>
        ELSE \* the client's method returns to its caller
             /\ proc' = [proc EXCEPT ![p] = [rec EXCEPT !.pc = "done", !.result = "ok"]]
             /\ UNCHANGED <<coord, setup, identity, absence_types, created>>
    /\ UNCHANGED <<now, token, token_payload, token_expiration, account, call>>

\* The answer to the authorized request arrives.
RequestResponse(p) == RequestResponseOf(p, RequestAnswers(proc[p].stage))

\* What coordinator.async_config_entry_first_refresh() raises when
\* _async_update_data raised err: the host's coordinator records the failed
\* update and reports the entry as not ready.
FirstRefreshRaises(err) == "ConfigEntryNotReady"

\* The except clauses of async_setup_entry around the first refresh.
SetupOutcome(raised) ==
    IF raised = "CrewmeisterAuthError" THEN "ConfigEntryAuthFailed"
    ELSE IF raised = "CrewmeisterMissingIdentity" THEN "ConfigEntryNotReady"
    ELSE IF raised \in CrewmeisterErrors THEN "ConfigEntryNotReady"
    ELSE raised

\* The caller takes the outcome.  A failed first refresh makes
\* async_setup_entry fail, and the host runs it again later: it builds a new
\* client from the config entry.
Finish(p) ==
    /\ proc[p].pc = "done"
    /\ proc' = [proc EXCEPT ![p] = Idle]
    /\ IF proc[p].op = "refresh" /\ proc[p].result # "ok" /\ setup.phase = "first_refresh"
       THEN /\ token' = NoToken
            /\ token_payload' = setup.token_payload
            /\ token_expiration' = _extract_token_expiration(setup.token_payload)
            /\ coord' = [data |-> NoData]
            /\ setup' = [setup EXCEPT
                            !.outcome = SetupOutcome(FirstRefreshRaises(proc[p].result))]
       ELSE UNCHANGED <<token, token_payload, token_expiration, coord, setup>>
    /\ UNCHANGED <<now, identity, account, call, absence_types, created>>

Next ==
    \/ Tick
    \/ StartRefresh
    \/ \E stamp_type \in STAMP_TYPES : Press(stamp_type)
    \/ \E stamp_type \in STAMP_TYPES, timestamp \in ServiceTimestamps :
           Service(stamp_type, timestamp)
    \/ \E p \in Procs : LoginResponse(p)
    \/ \E p \in Procs : RequestResponse(p)
    \/ \E p \in Procs : Finish(p)

Spec == Init /\ [][Next]_vars

(***************************************************************************)
(* The client on its own, as the config flow and any other caller use it:  *)
(* built with or without an identity and a stored token payload, for an    *)
(* account whose tokens carry some layout of id claims.                    *)
(***************************************************************************)
\* Layouts of the id claims: none; both ids as ints and as digit strings;
\* the user as "user:<id>" under sub; one of the two ids missing; a userId
\* that is no number, which ends the search although sub has the id; a
\* userId of 0, which is skipped; a "user:" value without a number.
Accounts ==
    { NoClaims,
      [userId |-> JInt(7), sub |-> JNone, crewId |-> JInt(42)],
      [userId |-> JStr("7"), sub |-> JNone, crewId |-> JStr("42")],
      [userId |-> JNone, sub |-> JStr("user:7"), crewId |-> JInt(42)],
      [userId |-> JInt(7), sub |-> JNone, crewId |-> JNone],
      [userId |-> JNone, sub |-> JNone, crewId |-> JInt(42)],
      [userId |-> JStr("abc"), sub |-> JInt(7), crewId |-> JInt(42)],
      [userId |-> JInt(0), sub |-> JInt(7), crewId |-> JInt(42)],
      [userId |-> JNone, sub |-> JStr("user:x"), crewId |-> JInt(42)] }

InitClient ==
    /\ now = 0
    /\ account \in Accounts
    /\ token = NoToken
    /\ token_payload \in {EmptyPayload, Claims(JInt(300), account)}
    /\ token_expiration = _extract_token_expiration(token_payload)
    /\ identity \in {NoIdentity, EntryIdentity}
    /\ coord = [data |-> NoData]
    /\ setup = [phase |-> "client", token_payload |-> token_payload, outcome |-> ""]
    /\ proc = [q \in Procs |-> Idle]
    /\ call = NoCall
    /\ absence_types = NoAbsenceTypes
    /\ created = Untracked

\* A caller awaits client.async_login() itself.
Login ==
    /\ AllIdle
    /\ proc' = [proc EXCEPT !["user"] =
                   [Idle EXCEPT !.op = "login", !.pc = "login_wait", !.why = "direct",
                                !.log = <<Event("login", 0)>>]]
    /\ UNCHANGED <<now, token, token_payload, token_expiration, identity, coord, setup,
                   account, call, absence_types, created>>

\* A caller awaits client.async_get_latest_stamp().
GetLatestStamp ==
    /\ AllIdle
    /\ proc' = [proc EXCEPT !["user"] =
                   BeginApiRequest([Idle EXCEPT !.op = "get_latest_stamp",
                                                !.req.method = "GET"],
                                   TRUE, token, token_expiration, now)]
    /\ UNCHANGED <<now, token, token_payload, token_expiration, identity, coord, setup,
                   account, call, absence_types, created>>

\* async_get_identity from its first line to its first await or its return.
ResolveIdentity(p, rec) ==
    IF IdentityCached(identity)
    THEN /\ proc' = [proc EXCEPT ![p] =
                AfterIdentity(rec, identity, token, token_expiration, now)]
         /\ UNCHANGED identity
    ELSE LET token_identity == _extract_identity_from_payload(token_payload)
             started == [rec EXCEPT !.ids = token_identity]
         IN IF NeedsLookup(token_identity)
            THEN /\ proc' = [proc EXCEPT ![p] =
                        BeginApiRequest(
                            [started EXCEPT !.stage = "identity", !.req.method = "GET",
                                            !.log = Append(@, Event("get_latest_stamp", 0))],
                            TRUE, token, token_expiration, now)]
                 /\ UNCHANGED identity
            ELSE /\ identity' = MakeIdentity(token_identity)
                 /\ proc' = [proc EXCEPT ![p] =
                        AfterIdentity(started, MakeIdentity(token_identity), token,
                                      token_expiration, now)]

\* A caller awaits client.async_get_identity().
GetIdentity ==
    /\ AllIdle
    /\ ResolveIdentity("user", [Idle EXCEPT !.op = "get_identity"])
    /\ UNCHANGED <<now, token, token_payload, token_expiration, coord, setup,
                   account, call, absence_types, created>>

\* A caller awaits client.async_create_stamp(stamp_type).
ClientStampTypes == STAMP_TYPES \cup {"OTHER"}
CreateStamp(stamp_type) ==
    /\ AllIdle
    /\ LET rec == [Idle EXCEPT !.op = "create_stamp", !.stamp_type = stamp_type]
       IN IF ~ValidStampType(stamp_type)
          THEN /\ proc' = [proc EXCEPT !["user"] = Raise(rec, "ValueError")]
               /\ UNCHANGED identity
          ELSE ResolveIdentity("user", rec)
    /\ UNCHANGED <<now, token, token_payload, token_expiration, coord, setup,
                   account, call, absence_types, created>>

NextClient ==
    \/ Tick
    \/ Login
    \/ GetLatestStamp
    \/ GetIdentity
    \/ \E stamp_type \in ClientStampTypes : CreateStamp(stamp_type)
    \/ LoginResponse("user")
    \/ RequestResponse("user")
    \/ Finish("user")

SpecClient == InitClient /\ [][NextClient]_vars

(***************************************************************************)
(* The absence calendar: _absences_to_events names the absence types of    *)
(* the absences it was given, on the client of a loaded entry.             *)
(***************************************************************************)
\* The absenceType ids of the absences of one conversion, in their order.
AbsenceLists == { <<1>>, <<1, 1>>, <<1, 2>> }

InitAbsence ==
    /\ now = 0
    /\ token = NoToken
    /\ token_payload = EmptyPayload
    /\ token_expiration = JNone
    /\ identity = EntryIdentity
    /\ coord = [data |-> NoData]
    /\ setup = [phase |-> "loaded", token_payload |-> EmptyPayload, outcome |-> ""]
    /\ proc = [q \in Procs |-> Idle]
    /\ account = NoClaims
    /\ call = NoCall
    /\ absence_types = NoAbsenceTypes
    /\ created = Untracked

AbsencesToEvents(absences) ==
    /\ AllIdle
    /\ proc' = [proc EXCEPT !["user"] =
                   _absences_to_events(
                       [Idle EXCEPT !.op = "absences_to_events", !.todo = absences],
                       absence_types, token, token_expiration, now)]
    /\ UNCHANGED <<now, token, token_payload, token_expiration, identity, coord, setup,
                   account, call, absence_types, created>>

NextAbsence ==
    \/ \E absences \in AbsenceLists : AbsencesToEvents(absences)
    \/ LoginResponse("user")
    \/ RequestResponse("user")
    \/ Finish("user")

SpecAbsence == InitAbsence /\ [][NextAbsence]_vars

\* Two conversions on one client at the same time (the calendar's
\* async_update and async_get_events both convert absences).
ConcurrentAbsenceLists == { <<1>>, <<1, 1>> }

\* The client has logged in: it holds a token that is good for 300 seconds.
InitAbsenceConcurrent ==
    /\ now = 0
    /\ token = Jwt(Claims(JInt(300), NoClaims))
    /\ token_payload = Claims(JInt(300), NoClaims)
    /\ token_expiration = JInt(300)
    /\ identity = EntryIdentity
    /\ coord = [data |-> NoData]
    /\ setup = [phase |-> "loaded", token_payload |-> EmptyPayload, outcome |-> ""]
    /\ proc = [q \in Procs |-> Idle]
    /\ account = NoClaims
    /\ call = NoCall
    /\ absence_types = NoAbsenceTypes
    /\ created = Untracked

ConcurrentAbsencesToEvents(p, absences) ==
    /\ proc[p].pc = "idle"
    /\ proc' = [proc EXCEPT ![p] =
                   _absences_to_events(
                       [Idle EXCEPT !.op = "absences_to_events", !.todo = absences],
                       absence_types, token, token_expiration, now)]
    /\ UNCHANGED <<now, token, token_payload, token_expiration, identity, coord, setup,
                   account, call, absence_types, created>>

\* The answers of a server that accepts the token: the bodies of an
\* absence type, an error status, a transport failure.
AcceptingAnswers ==
    { ans \in RequestAnswers("absence_type") :
        \/ ans.kind = "status" /\ ans.status \in {200, 500}
        \/ ans.kind = "client_error" }

NextAbsenceConcurrent ==
    \/ \E p \in Procs, absences \in ConcurrentAbsenceLists :
           ConcurrentAbsencesToEvents(p, absences)
    \/ \E p \in Procs : RequestResponseOf(p, AcceptingAnswers)
    \/ \E p \in Procs : Finish(p)

SpecAbsenceConcurrent == InitAbsenceConcurrent /\ [][NextAbsenceConcurrent]_vars

(***************************************************************************)
(* The name of an absence type: async_get_absence_type_name on the mapping *)
(* async_get_absence_type returned, for the language of the client.        *)
(***************************************************************************)
\* A pure call that has not returned yet.
Pending == [t |-> "pending", i |-> 0, s |-> ""]

\* str(key).lower() on the language keys of the model, the same with "_"
\* replaced by "-", and split("-", 1)[0].
KeyLower(k) ==
    CASE k = "de-DE" -> "de-de" [] k = "de_DE" -> "de_de" [] k = "de-AT" -> "de-at"
      [] OTHER -> k
Dashed(k) == IF k = "de_de" THEN "de-de" ELSE k
PrimaryOf(k) == IF k \in {"de-de", "de-at"} THEN "de" ELSE k

\* A translations mapping as JSON gives it: its items in their order, or a
\* value that is no mapping.
NotADict == [dict |-> FALSE, items |-> <<>>]
Dict(items) == [dict |-> TRUE, items |-> items]
Item(key, value) == [key |-> key, value |-> value]

\* The two branches of _iter_translation_matches that append the value.
KeyMatches(key, lang_lower, lang_primary) ==
    \/ KeyLower(key) = lang_lower \/ Dashed(KeyLower(key)) = lang_lower
    \/ KeyLower(key) = lang_primary \/ PrimaryOf(KeyLower(key)) = lang_primary

_iter_translation_matches(translations, lang_lower, lang_primary) ==
    SelectSeq(translations,
              LAMBDA it : /\ it.value.t = "str" /\ it.value.s # ""
                          /\ KeyMatches(it.key, lang_lower, lang_primary))

\* Python's `a or b`.
PyOr(a, b) == IF Truthy(a) THEN a ELSE b

\* language is "" when the client has none.
_extract_translated_name(data, language) ==
    IF language = "" THEN JNone
    ELSE LET lang_lower == KeyLower(language)
             lang_primary == PrimaryOf(lang_lower)
             candidates ==
                 (IF data.translations.dict
                  THEN _iter_translation_matches(data.translations.items,
                                                 lang_lower, lang_primary)
                  ELSE <<>>) \o
                 (IF data.nameTranslations.dict
                  THEN _iter_translation_matches(data.nameTranslations.items,
                                                 lang_lower, lang_primary)
                  ELSE <<>>)
             localized == PyOr(data.displayNameLocalized, data.nameLocalized)
         IN IF localized.t = "str" /\ localized.s # "" THEN localized
            ELSE IF candidates # <<>> THEN candidates[1].value
            ELSE JNone

\* async_get_absence_type_name once info is there (info is a mapping with
\* at least one key).
AbsenceTypeName(info, language) ==
    LET translation == _extract_translated_name(info, language)
    IN IF Truthy(translation) THEN translation
       ELSE PyOr(info.name, PyOr(info.displayName, info.absenceTypeName))

\* The translations of the inputs: none, an exact and a primary match in
\* both orders, a regional sibling, an underscore key, another language,
\* and values that are empty or no string.
TranslationValues ==
    { NotADict, Dict(<<>>),
      Dict(<<Item("de-DE", JStr("T-de-DE"))>>),
      Dict(<<Item("de", JStr("T-de"))>>),
      Dict(<<Item("de-DE", JStr("T-de-DE")), Item("de", JStr("T-de"))>>),
      Dict(<<Item("de", JStr("T-de")), Item("de-DE", JStr("T-de-DE"))>>),
      Dict(<<Item("de-AT", JStr("T-de-AT")), Item("de-DE", JStr("T-de-DE"))>>),
      Dict(<<Item("de_DE", JStr("T-de_DE"))>>),
      Dict(<<Item("en", JStr("T-en"))>>),
      Dict(<<Item("de-DE", JStr("")), Item("de", JInt(5))>>) }

NameInputs ==
    { [info |-> [translations |-> tr, nameTranslations |-> ntr,
                 displayNameLocalized |-> dl, nameLocalized |-> nl,
                 name |-> n, displayName |-> dn, absenceTypeName |-> an],
       language |-> lang] :
        tr \in TranslationValues,
        ntr \in {NotADict, Dict(<<Item("de", JStr("NT-de"))>>)},
        dl \in {JNone, JStr("DL")}, nl \in {JNone, JStr("NL")},
        n \in {JNone, JStr("N")}, dn \in {JNone, JStr("DN")},
        an \in {JNone, JStr("AN")},
        lang \in {"de-DE", "de", ""} }

InitName ==
    /\ now = 0
    /\ token = NoToken
    /\ token_payload = EmptyPayload
    /\ token_expiration = JNone
    /\ identity = EntryIdentity
    /\ coord = [data |-> NoData]
    /\ setup = [phase |-> "loaded", token_payload |-> EmptyPayload, outcome |-> ""]
    /\ proc = [q \in Procs |-> Idle]
    /\ account = NoClaims
    /\ call \in { [fn |-> "async_get_absence_type_name", arg |-> input, ret |-> Pending] :
                     input \in NameInputs }
    /\ absence_types = NoAbsenceTypes
    /\ created = Untracked

CallAbsenceTypeName ==
    /\ call.fn = "async_get_absence_type_name"
    /\ call.ret = Pending
    /\ call' = [call EXCEPT !.ret = AbsenceTypeName(call.arg.info, call.arg.language)]
    /\ UNCHANGED <<now, token, token_payload, token_expiration, identity, coord, setup,
                   proc, account, absence_types, created>>

NextName == CallAbsenceTypeName

SpecName == InitName /\ [][NextName]_vars

(***************************************************************************)
(* The message of the error _request_json raises for an HTTP error status, *)
(* from the body _safe_read_json read.                                     *)
(***************************************************************************)
\* Bodies: None, text, a JSON object, a JSON list, a JSON number.  The keys
\* of an object that are absent hold JNone (dict.get gives None for both).
NoErrors == [list |-> FALSE, items |-> <<>>]
ErrorsList(items) == [list |-> TRUE, items |-> items]
\* An item of the errors list: a scalar, or an object with its message.
Scalar(v) == [dict |-> FALSE, v |-> v]
WithMessage(v) == [dict |-> TRUE, v |-> v]
NoErrorCode == [has |-> FALSE, v |-> JNone]
ErrorCode(v) == [has |-> TRUE, v |-> v]
NoKeys ==
    [message |-> JNone, error |-> JNone, error_description |-> JNone, detail |-> JNone,
     title |-> JNone, reason |-> JNone, errors |-> NoErrors, errorCode |-> NoErrorCode]
BodyNone == [kind |-> "none", s |-> "", i |-> 0, d |-> NoKeys, l |-> <<>>]
BodyText(s) == [BodyNone EXCEPT !.kind = "str", !.s = s]
BodyNumber(i) == [BodyNone EXCEPT !.kind = "int", !.i = i]
BodyObject(d) == [BodyNone EXCEPT !.kind = "dict", !.d = d]
BodyList(l) == [BodyNone EXCEPT !.kind = "list", !.l = l]

\* `not body`: None, "", 0, [] and {} (an object none of whose keys is there).
BodyFalsy(body) ==
    \/ body.kind = "none"
    \/ body.kind = "str" /\ body.s = ""
    \/ body.kind = "int" /\ body.i = 0
    \/ body.kind = "list" /\ body.l = <<>>
    \/ body.kind = "dict" /\ body.d = NoKeys

NonEmptyStr(v) == v.t = "str" /\ v.s # ""

\* str(item) for the scalars of the model.
PyStr(v) == IF v.t = "str" THEN v.s ELSE IF v.i = 5 THEN "5" ELSE "0"

RECURSIVE Join(_)
\* "; ".join(parts)
Join(parts) ==
    IF Len(parts) = 1 THEN parts[1] ELSE parts[1] \o "; " \o Join(Tail(parts))

\* The keys read first, in the order of the tuple at api.py:403.
DetailKeys == <<"message", "error", "error_description", "detail", "title", "reason">>

KeyValues(d) == [k \in 1..Len(DetailKeys) |-> d[DetailKeys[k]]]

\* The messages collected from the errors list.
ErrorMessages(errors) ==
    LET kept == SelectSeq(errors.items, LAMBDA item : NonEmptyStr(item.v))
    IN [k \in 1..Len(kept) |-> kept[k].v.s]

\* Variant: errorCode is read before the errors list.
_extract_error_detail_code_first(body) ==
    IF BodyFalsy(body) THEN ""
    ELSE IF body.kind = "str" THEN body.s
    ELSE IF body.kind = "dict"
    THEN LET found == SelectSeq(KeyValues(body.d), NonEmptyStr)
             messages == ErrorMessages(body.d.errors)
         IN IF found # <<>> THEN found[1].s
            ELSE IF body.d.errorCode.has /\ body.d.errorCode.v.t = "str"
            THEN body.d.errorCode.v.s
            ELSE IF body.d.errors.list /\ messages # <<>> THEN Join(messages)
            ELSE ""
    ELSE IF body.kind = "list"
    THEN LET kept == SelectSeq(body.l, Truthy)
             parts == [k \in 1..Len(kept) |-> PyStr(kept[k])]
         IN IF parts # <<>> THEN Join(parts) ELSE ""
    ELSE ""

\* "" stands for None: _request_json tests the detail for truth only.
_extract_error_detail(body) ==
    IF BodyFalsy(body) THEN ""
    ELSE IF body.kind = "str" THEN body.s
    ELSE IF body.kind = "dict"
    THEN LET found == SelectSeq(KeyValues(body.d), NonEmptyStr)
             messages == ErrorMessages(body.d.errors)
         IN IF found # <<>> THEN found[1].s
            ELSE IF body.d.errors.list /\ messages # <<>> THEN Join(messages)
            ELSE IF body.d.errorCode.has /\ body.d.errorCode.v.t = "str"
            THEN body.d.errorCode.v.s
            ELSE ""
    ELSE IF body.kind = "list"
    THEN LET kept == SelectSeq(body.l, Truthy)
             parts == [k \in 1..Len(kept) |-> PyStr(kept[k])]
         IN IF parts # <<>> THEN Join(parts) ELSE ""
    ELSE ""

ErrorStatuses == {403, 500}
StatusText(status) == IF status = 403 THEN "403" ELSE "500"

\* The message of the CrewmeisterError raised at api.py:217-221.
ErrorMessage(status, body) ==
    LET detail == _extract_error_detail(body)
    IN IF detail # ""
       THEN "Crewmeister API returned " \o StatusText(status) \o ": " \o detail
       ELSE "Crewmeister API returned " \o StatusText(status)

ObjectBodies ==
    { [message |-> m, error |-> e, error_description |-> ed, detail |-> dt,
       title |-> ti, reason |-> re, errors |-> es, errorCode |-> ec] :
        m \in {JNone, JStr("m"), JStr(""), JInt(5)},
        e \in {JNone, JStr("e")}, ed \in {JNone, JStr("ed")},
        dt \in {JNone, JStr("dt")}, ti \in {JNone, JStr("ti")},
        re \in {JNone, JStr("re")},
        es \in { NoErrors, ErrorsList(<<>>),
                 ErrorsList(<<Scalar(JStr("a")), WithMessage(JStr("b"))>>),
                 ErrorsList(<<Scalar(JStr("")), Scalar(JInt(5)), WithMessage(JNone),
                              WithMessage(JStr("c"))>>),
                 ErrorsList(<<WithMessage(JStr(""))>>) },
        ec \in {NoErrorCode, ErrorCode(JStr("E1")), ErrorCode(JStr("")), ErrorCode(JInt(5))} }

ErrorBodies ==
    {BodyNone, BodyText("txt"), BodyText(""), BodyNumber(5), BodyNumber(0)}
    \cup {BodyObject(d) : d \in ObjectBodies}
    \cup {BodyList(l) : l \in { <<>>, <<JStr("a"), JInt(0), JStr("b")>>, <<JInt(5)>>,
                                <<JStr("")>>, <<JStr("a")>> }}

InitError ==
    /\ now = 0
    /\ token = NoToken
    /\ token_payload = EmptyPayload
    /\ token_expiration = JNone
    /\ identity = EntryIdentity
    /\ coord = [data |-> NoData]
    /\ setup = [phase |-> "loaded", token_payload |-> EmptyPayload, outcome |-> ""]
    /\ proc = [q \in Procs |-> Idle]
    /\ account = NoClaims
    /\ call \in { [fn |-> "_request_json", arg |-> [status |-> st, body |-> body],
                    ret |-> ""] : st \in ErrorStatuses, body \in ErrorBodies }
    /\ absence_types = NoAbsenceTypes
    /\ created = Untracked

\* _request_json from the response on, for a status of 400 or more.
RaiseForStatus ==
    /\ call.fn = "_request_json"
    /\ call.ret = ""
    /\ call' = [call EXCEPT !.ret = ErrorMessage(call.arg.status, call.arg.body)]
    /\ UNCHANGED <<now, token, token_payload, token_expiration, identity, coord, setup,
                   proc, account, absence_types, created>>

NextError == RaiseForStatus

SpecError == InitError /\ [][NextError]_vars

(***************************************************************************)
(* async_login from the token of the answer on (api.py:146-154), for every *)
(* shape of token string.                                                  *)
(***************************************************************************)
TokenStrings ==
    { Token(n, "json", Claims(e, ids)) :
        n \in 1..4, e \in {JNone, JInt(300), JStr("42")}, ids \in Accounts } \cup
    { Token(n, m, EmptyPayload) :
        n \in 1..4, m \in {"bad_base64", "not_json", "not_utf8"} }

InitDecode ==
    /\ now = 0
    /\ token = NoToken
    /\ token_payload = EmptyPayload
    /\ token_expiration = JNone
    /\ identity = EntryIdentity
    /\ coord = [data |-> NoData]
    /\ setup = [phase |-> "client", token_payload |-> EmptyPayload, outcome |-> ""]
    /\ proc = [q \in Procs |-> Idle]
    /\ account = NoClaims
    /\ call \in { [fn |-> "async_login", arg |-> tok, ret |-> ""] : tok \in TokenStrings }
    /\ absence_types = NoAbsenceTypes
    /\ created = Untracked

\* The answer 200 carried the token call.arg: decode, then store.
LoginWithToken ==
    /\ call.fn = "async_login"
    /\ call.ret = ""
    /\ IF DecodeRaises(call.arg)
       THEN /\ call' = [call EXCEPT !.ret = "UnicodeDecodeError"]
            /\ UNCHANGED <<token, token_payload, token_expiration>>
       ELSE /\ token' = call.arg
            /\ token_payload' = decode_jwt_payload(call.arg)
            /\ token_expiration' = _extract_token_expiration(decode_jwt_payload(call.arg))
            /\ call' = [call EXCEPT !.ret = "returned"]
    /\ UNCHANGED <<now, identity, coord, setup, proc, account, absence_types, created>>

NextDecode == LoginWithToken

SpecDecode == InitDecode /\ [][NextDecode]_vars

(***************************************************************************)
(* The timestamp async_create_stamp sends and CrewmeisterStamp.timestamp   *)
(* reads back.                                                             *)
(***************************************************************************)
\* An aware datetime: its wall clock in seconds from 1970-01-01T00:00:00 of
\* its own zone, its microsecond, and its UTC offset in seconds.
Datetime(wall, microsecond, utcoffset) ==
    [wall |-> wall, microsecond |-> microsecond, utcoffset |-> utcoffset]

\* Variant: the zone is relabelled, the wall clock kept.
astimezone_utc_relabel(dt) == [dt EXCEPT !.utcoffset = 0]

\* timestamp.astimezone(timezone.utc)
astimezone_utc(dt) == [dt EXCEPT !.wall = dt.wall - dt.utcoffset, !.utcoffset = 0]

\* The texts isoformat() writes for the offsets of the model.
OffsetText(utcoffset) ==
    CASE utcoffset = 0 -> "+00:00"
      [] utcoffset = 3600 -> "+01:00"
      [] utcoffset = -3600 -> "-01:00"
      [] utcoffset = 19800 -> "+05:30"

\* The text of a datetime as its parts: days from 1970-01-01 (the date),
\* hour, minute, second, the fraction (0 when isoformat() writes none) and
\* the zone suffix.
isoformat(dt) ==
    [day |-> dt.wall \div 86400,
     hour |-> (dt.wall % 86400) \div 3600,
     minute |-> (dt.wall % 3600) \div 60,
     second |-> dt.wall % 60,
     fraction |-> dt.microsecond,
     zone |-> OffsetText(dt.utcoffset)]

\* text.replace(old, new): only the zone suffix can hold old.
ReplaceZone(text, old, new) == IF text.zone = old THEN [text EXCEPT !.zone = new] ELSE text

\* The "timestamp" key of the payload (api.py:290).
SentTimestamp(timestamp) ==
    ReplaceZone(isoformat([astimezone_utc(timestamp) EXCEPT !.microsecond = 0]),
                "+00:00", "Z")

\* datetime.fromisoformat on a text with a numeric zone suffix.
fromisoformat(text) ==
    Datetime(text.day * 86400 + text.hour * 3600 + text.minute * 60 + text.second,
             text.fraction,
             CHOOSE utcoffset \in {0, 3600, -3600, 19800} : OffsetText(utcoffset) = text.zone)

\* CrewmeisterStamp.timestamp for a value that is there.
StampTimestamp(value) == fromisoformat(ReplaceZone(value, "Z", "+00:00"))

TimestampInputs ==
    { Datetime(wall, microsecond, utcoffset) :
        wall \in {0, 59, 3600, 86399, 90061},
        microsecond \in {0, 1, 999999},
        utcoffset \in {0, 3600, -3600, 19800} }

NoText == [day |-> 0, hour |-> 0, minute |-> 0, second |-> 0, fraction |-> 0, zone |-> ""]
NotParsed == Datetime(0, 0, 0)

InitTimestamp ==
    /\ now = 0
    /\ token = NoToken
    /\ token_payload = EmptyPayload
    /\ token_expiration = JNone
    /\ identity = EntryIdentity
    /\ coord = [data |-> NoData]
    /\ setup = [phase |-> "client", token_payload |-> EmptyPayload, outcome |-> ""]
    /\ proc = [q \in Procs |-> Idle]
    /\ account = NoClaims
    /\ call \in { [fn |-> "timestamp", arg |-> timestamp,
                    ret |-> [stage |-> "start", sent |-> NoText, parsed |-> NotParsed]] :
                     timestamp \in TimestampInputs }
    /\ absence_types = NoAbsenceTypes
    /\ created = Untracked

\* async_create_stamp builds the payload for the timestamp call.arg.
SendTimestamp ==
    /\ call.fn = "timestamp"
    /\ call.ret.stage = "start"
    /\ call' = [call EXCEPT !.ret.stage = "sent", !.ret.sent = SentTimestamp(call.arg)]
    /\ UNCHANGED <<now, token, token_payload, token_expiration, identity, coord, setup,
                   proc, account, absence_types, created>>

\* The timestamp property of a stamp that carries the text sent.
ParseTimestamp ==
    /\ call.fn = "timestamp"
    /\ call.ret.stage = "sent"
    /\ call' = [call EXCEPT !.ret.stage = "parsed",
                            !.ret.parsed = StampTimestamp(call.ret.sent)]
    /\ UNCHANGED <<now, token, token_payload, token_expiration, identity, coord, setup,
                   proc, account, absence_types, created>>

NextTimestamp == SendTimestamp \/ ParseTimestamp

SpecTimestamp == InitTimestamp /\ [][NextTimestamp]_vars

(***************************************************************************)
(* Two callers on one client at the same time: each awaits                 *)
(* client.async_get_latest_stamp() while the other may be in flight.       *)
(***************************************************************************)
InitConcurrent ==
    /\ now = 0
    /\ token = NoToken
    /\ token_payload = EmptyPayload
    /\ token_expiration = JNone
    /\ identity = EntryIdentity
    /\ coord = [data |-> NoData]
    /\ setup = [phase |-> "client", token_payload |-> EmptyPayload, outcome |-> ""]
    /\ proc = [q \in Procs |-> Idle]
    /\ account = NoClaims
    /\ call = NoCall
    /\ absence_types = NoAbsenceTypes
    /\ created = Untracked

ConcurrentGetLatestStamp(p) ==
    /\ proc[p].pc = "idle"
    /\ proc' = [proc EXCEPT ![p] =
                   BeginApiRequest([Idle EXCEPT !.op = "get_latest_stamp",
                                                !.req.method = "GET"],
                                   TRUE, token, token_expiration, now)]
    /\ UNCHANGED <<now, token, token_payload, token_expiration, identity, coord, setup,
                   account, call, absence_types, created>>

NextConcurrent ==
    \/ Tick
    \/ \E p \in Procs : ConcurrentGetLatestStamp(p)
    \/ \E p \in Procs : LoginResponse(p)
    \/ \E p \in Procs : RequestResponse(p)
    \/ \E p \in Procs : Finish(p)

SpecConcurrent == InitConcurrent /\ [][NextConcurrent]_vars

(***************************************************************************)
(* async_api_request called with a headers mapping of the caller's.        *)
(***************************************************************************)
\* A token the caller put into its own Authorization entry; the server
\* issues no such token.
CallerToken == Jwt(Claims(JInt(0), NoClaims))
CallerHeaders == {NoHeaders, Headers(NoToken), Headers(CallerToken)}

InitHeaders ==
    /\ now = 0
    /\ token = NoToken
    /\ token_payload = EmptyPayload
    /\ token_expiration = JNone
    /\ identity = EntryIdentity
    /\ coord = [data |-> NoData]
    /\ setup = [phase |-> "client", token_payload |-> EmptyPayload, outcome |-> ""]
    /\ proc = [q \in Procs |-> Idle]
    /\ account = NoClaims
    /\ call = NoCall
    /\ absence_types = NoAbsenceTypes
    /\ created = Untracked

\* A caller awaits client.async_api_request("GET", path, headers=headers).
ApiRequest(headers) ==
    /\ AllIdle
    /\ proc' = [proc EXCEPT !["user"] =
                   BeginApiRequest([Idle EXCEPT !.op = "api_request", !.req.method = "GET",
                                                !.req.headers = headers],
                                   TRUE, token, token_expiration, now)]
    /\ UNCHANGED <<now, token, token_payload, token_expiration, identity, coord, setup,
                   account, call, absence_types, created>>

NextHeaders ==
    \/ Tick
    \/ \E headers \in CallerHeaders : ApiRequest(headers)
    \/ LoginResponse("user")
    \/ RequestResponse("user")
    \/ Finish("user")

SpecHeaders == InitHeaders /\ [][NextHeaders]_vars

(***************************************************************************)
(* The buttons and the coordinator of one entry, with the history of the   *)
(* stamps the presses created.                                             *)
(***************************************************************************)
InitPress ==
    /\ now = 0
    /\ token = NoToken
    /\ token_payload \in EntryPayloads
    /\ token_expiration = _extract_token_expiration(token_payload)
    /\ identity = EntryIdentity
    /\ coord = [data |-> NoData]
    /\ setup = [phase |-> "first_refresh", token_payload |-> token_payload, outcome |-> ""]
    /\ proc = [q \in Procs |-> Idle]
    /\ account = NoClaims
    /\ call = NoCall
    /\ absence_types = NoAbsenceTypes
    /\ created = ""

NextPress ==
    \/ StartRefresh
    \/ \E stamp_type \in STAMP_TYPES : Press(stamp_type)
    \/ \E p \in Procs : LoginResponse(p)
    \/ \E p \in Procs : RequestResponse(p)
    \/ \E p \in Procs : Finish(p)

SpecPress == InitPress /\ [][NextPress]_vars

(***************************************************************************)
(* _derive_status on its own: the function is called once on an argument   *)
(* drawn from the stamps it can be given, the ones of an unknown type or   *)
(* status and the ones without these keys included.                        *)
(***************************************************************************)
DeriveInputs ==
    {NoStamp} \cup
    { [present |-> TRUE, stampType |-> ty, stampStatus |-> ss, id |-> sh[1],
       chainStartStampId |-> sh[2], chain_start_stamp_id |-> JNone,
       allocationDate |-> sh[3]] :
        ty \in STAMP_TYPES \cup {"OTHER", ""},
        ss \in {"OPEN", "CLOSED", "open", ""},
        sh \in StampShapes }

InitDerive ==
    /\ now = 0
    /\ token = NoToken
    /\ token_payload = EmptyPayload
    /\ token_expiration = JNone
    /\ identity = EntryIdentity
    /\ coord = [data |-> NoData]
    /\ setup = [phase |-> "first_refresh", token_payload |-> EmptyPayload, outcome |-> ""]
    /\ proc = [q \in Procs |-> Idle]
    /\ account = NoClaims
    /\ call \in { [fn |-> "_derive_status", arg |-> stamp, ret |-> ""] :
                     stamp \in DeriveInputs }
    /\ absence_types = NoAbsenceTypes
    /\ created = Untracked

CallDeriveStatus ==
    /\ call.fn = "_derive_status"
    /\ call.ret = ""
    /\ call' = [call EXCEPT !.ret = _derive_status(call.arg)]
    /\ UNCHANGED <<now, token, token_payload, token_expiration, identity, coord, setup,
                   proc, account, absence_types, created>>

NextDerive == CallDeriveStatus

SpecDerive == InitDerive /\ [][NextDerive]_vars

(***************************************************************************)
(* helpers.py: the polling interval, with the names it takes from const.py *)
(***************************************************************************)
\* A module-level name: const.py assigns it a value or does not define it.
Undefined == [defined |-> FALSE, value |-> 0]
Defined(value) == [defined |-> TRUE, value |-> value]

\* const.py: DEFAULT_UPDATE_INTERVAL = timedelta(seconds=60), in seconds.
\* The file assigns neither MIN_UPDATE_INTERVAL_SECONDS nor
\* MAX_UPDATE_INTERVAL_SECONDS.
DEFAULT_UPDATE_INTERVAL == Defined(60)
MIN_UPDATE_INTERVAL_SECONDS == Undefined
MAX_UPDATE_INTERVAL_SECONDS == Undefined

\* from .const import (...) at the top of helpers.py raises ImportError
\* when const.py lacks one of the names.
ImportRaises ==
    \E name \in {DEFAULT_UPDATE_INTERVAL, MAX_UPDATE_INTERVAL_SECONDS,
                  MIN_UPDATE_INTERVAL_SECONDS} : ~name.defined

DEFAULT_UPDATE_INTERVAL_SECONDS == DEFAULT_UPDATE_INTERVAL.value

\* Results of the helpers: an int, None, or an exception that propagates.
IntResult(value) == [kind |-> "int", value |-> value, exc |-> ""]
NoneResult == [kind |-> "None", value |-> 0, exc |-> ""]
Raised(exc) == [kind |-> "raise", value |-> 0, exc |-> exc]
NotCalled == [kind |-> "pending", value |-> 0, exc |-> ""]

\* A number or a piece of text read as a number: finite with the integer it
\* truncates to, nan, inf, or text float() does not accept ("" included).
Finite(trunc) == [num |-> "finite", trunc |-> trunc]
NotANumber == [num |-> "nan", trunc |-> 0]
Infinity == [num |-> "inf", trunc |-> 0]
Word == [num |-> "text", trunc |-> 0]
EmptyText == [num |-> "empty", trunc |-> 0]

\* int(float(part)): float() raises ValueError for text, int() raises
\* ValueError for nan and OverflowError for inf.
IntOfFloat(part) ==
    CASE part.num = "finite" -> IntResult(part.trunc)
      [] part.num = "inf" -> Raised("OverflowError")
      [] OTHER -> Raised("ValueError")

\* The arguments: a timedelta, an int, a float, a str given by the pieces
\* between its colons and whether blanks surround it, or anything else.
Timedelta(seconds) == [t |-> "timedelta", number |-> Finite(seconds), pad |-> FALSE,
                       parts |-> <<>>]
IntValue(i) == [t |-> "int", number |-> Finite(i), pad |-> FALSE, parts |-> <<>>]
FloatValue(number) == [t |-> "float", number |-> number, pad |-> FALSE, parts |-> <<>>]
StrValue(pad, parts) == [t |-> "str", number |-> Word, pad |-> pad, parts |-> parts]
OtherValue == [t |-> "other", number |-> Word, pad |-> FALSE, parts |-> <<>>]

\* value.strip()
strip(value) == [value EXCEPT !.pad = FALSE]

\* Index of the first piece whose conversion raises, 0 when none does.
FirstRaising(parts) ==
    IF \E i \in 1..Len(parts) : IntOfFloat(parts[i]).kind = "raise"
    THEN CHOOSE i \in 1..Len(parts) :
            /\ IntOfFloat(parts[i]).kind = "raise"
            /\ \A j \in 1..(i - 1) : IntOfFloat(parts[j]).kind # "raise"
    ELSE 0

_parse_colon_time(value) ==
    LET parts == value.parts
        bad == FirstRaising(parts)
        numbers == [i \in 1..Len(parts) |-> IntOfFloat(parts[i]).value]
    IN  IF Len(parts) \notin {2, 3} THEN NoneResult
        ELSE IF bad # 0
             THEN IF IntOfFloat(parts[bad]).exc = "ValueError" THEN NoneResult
                  ELSE IntOfFloat(parts[bad])
        ELSE IF Len(numbers) = 2 THEN IntResult(numbers[1] * 60 + numbers[2])
        ELSE IntResult(numbers[1] * 3600 + numbers[2] * 60 + numbers[3])

\* int(float(stripped)) for a whole string: text with a colon is no float.
IntOfFloatText(stripped) ==
    IF Len(stripped.parts) = 1 THEN IntOfFloat(stripped.parts[1])
    ELSE Raised("ValueError")

\* The seconds coerce_update_interval_seconds has before the default and
\* the clamp: an int, None, or the exception that leaves the function.
IntervalSeconds(value) ==
    CASE value.t = "timedelta" -> IntResult(value.number.trunc)
      [] value.t \in {"int", "float"} -> IntOfFloat(value.number)
      [] value.t = "str" ->
            LET stripped == strip(value)
                whole == IntOfFloatText(stripped)
            IN  IF stripped.parts = <<EmptyText>> THEN NoneResult
                ELSE IF whole.kind = "int" THEN whole
                ELSE IF whole.exc = "ValueError" THEN _parse_colon_time(stripped)
                ELSE whole
      [] OTHER -> NoneResult

PyMax(a, b) == IF b > a THEN b ELSE a
PyMin(a, b) == IF b < a THEN b ELSE a

coerce_update_interval_seconds(value) ==
    LET found == IntervalSeconds(value)
        seconds == IF found.kind = "None" THEN DEFAULT_UPDATE_INTERVAL_SECONDS
                   ELSE found.value
    IN  IF found.kind = "raise" THEN found
        ELSE IntResult(PyMax(MIN_UPDATE_INTERVAL_SECONDS.value,
                         PyMin(MAX_UPDATE_INTERVAL_SECONDS.value, seconds)))

\* The seconds and the pieces the calls are made with.
IntervalSecondsTried == {-86400, -1, 0, 1, 59, 60, 61, 3600, 86400}
PiecesTried == {Finite(1), Finite(30), NotANumber, Infinity, Word, EmptyText}

IntervalInputs ==
    { Timedelta(i) : i \in IntervalSecondsTried } \cup
    { IntValue(i) : i \in IntervalSecondsTried } \cup
    { FloatValue(Finite(i)) : i \in IntervalSecondsTried } \cup
    { FloatValue(NotANumber), FloatValue(Infinity), OtherValue } \cup
    { StrValue(pad, <<a>>) : pad \in BOOLEAN, a \in PiecesTried \cup {Finite(90)} } \cup
    { StrValue(pad, <<a, b>>) : pad \in BOOLEAN, a \in PiecesTried, b \in PiecesTried } \cup
    { StrValue(FALSE, <<a, b, c>>) :
         a \in PiecesTried, b \in PiecesTried, c \in PiecesTried } \cup
    { StrValue(FALSE, <<Finite(1), Finite(1), Finite(1), Finite(1)>>) }

InitInterval ==
    /\ now = 0
    /\ token = NoToken
    /\ token_payload = EmptyPayload
    /\ token_expiration = JNone
    /\ identity = EntryIdentity
    /\ coord = [data |-> NoData]
    /\ setup = [phase |-> "client", token_payload |-> EmptyPayload, outcome |-> ""]
    /\ proc = [q \in Procs |-> Idle]
    /\ account = NoClaims
    /\ call \in { [fn |-> "coerce_update_interval_seconds", arg |-> value,
                    ret |-> NotCalled] : value \in IntervalInputs }
    /\ absence_types = NoAbsenceTypes
    /\ created = Untracked

\* A caller imports helpers and calls coerce_update_interval_seconds with
\* call.arg: the import runs the module top, then the function runs.
CallCoerceUpdateInterval ==
    /\ call.fn = "coerce_update_interval_seconds"
    /\ call.ret = NotCalled
    /\ call' = [call EXCEPT !.ret = IF ImportRaises THEN Raised("ImportError")
                                      ELSE coerce_update_interval_seconds(call.arg)]
    /\ UNCHANGED <<now, token, token_payload, token_expiration, identity, coord, setup,
                   proc, account, absence_types, created>>

NextInterval == CallCoerceUpdateInterval

SpecInterval == InitInterval /\ [][NextInterval]_vars

(***************************************************************************)
(* Reading a handler's log                                                 *)
(***************************************************************************)
Indices(log, e) == { i \in DOMAIN log : log[i].e = e }
Responses(log) == SelectSeq(log, LAMBDA ev : ev.e = "response")
HasSent(log) == Indices(log, "send") # {}

\* The position of the first 401 answer, 0 when there is none.
First401(log) ==
    LET at == { i \in DOMAIN log : log[i] = Event("response", 401) }
    IN IF at = {} THEN 0 ELSE CHOOSE i \in at : \A j \in at : i <= j

LoginsAfterFirst401(log) ==
    Cardinality({ i \in Indices(log, "login") : First401(log) # 0 /\ i > First401(log) })

\* The chain id the latest stamp stands for: its chainStartStampId, else its id.
ChainOf(stamp) ==
    IF stamp.chainStartStampId.t = "int" THEN stamp.chainStartStampId ELSE stamp.id

AcceptedPairs ==
    { <<"clocked_out", STAMP_TYPE_START_WORK>>,
      <<"clocked_in", STAMP_TYPE_START_BREAK>>,
      <<"clocked_in", STAMP_TYPE_CLOCK_OUT>>,
      <<"on_break", STAMP_TYPE_START_WORK>>,
      <<"on_break", STAMP_TYPE_CLOCK_OUT>> }

\* A press whose transition check has passed: async_create_stamp was called.
AcceptedPress(rec) == rec.op = "press" /\ rec.log # <<>>

\* A stamp that continues a chain: a break, a clock-out, or work resumed
\* after a break.
FollowUp(stamp_type, status) ==
    \/ stamp_type \in {STAMP_TYPE_START_BREAK, STAMP_TYPE_CLOCK_OUT}
    \/ stamp_type = STAMP_TYPE_START_WORK /\ status = "on_break"

(***************************************************************************)
(* C1: an authorized request that is answered 401 and, after the re-login, *)
(* 200 succeeds, and exactly one login call is made after the 401,         *)
(* whatever claims the new token carries.                                  *)
(***************************************************************************)
C1_OneLoginAfter401 ==
    \A p \in Procs :
        LET rec == proc[p] responses == Responses(rec.log) IN
        (/\ rec.pc = "done"
         /\ Len(responses) = 2
         /\ responses[1].status = 401
         /\ responses[2].status = 200)
        => /\ rec.result = "ok"
           /\ LoginsAfterFirst401(rec.log) = 1

(***************************************************************************)
(* C2: an authorized request answered 401 on the first attempt and 401 on  *)
(* the retry ends in an error for the caller, and the operation makes no   *)
(* third login attempt.                                                    *)
(***************************************************************************)
C2_NoThirdLogin ==
    \A p \in Procs :
        LET rec == proc[p] responses == Responses(rec.log) IN
        (/\ rec.pc = "done"
         /\ Len(responses) = 2
         /\ responses[1].status = 401
         /\ responses[2].status = 401)
        => /\ rec.result \notin {"", "ok"}
           /\ Cardinality(Indices(rec.log, "login")) <= 2

(***************************************************************************)
(* C3: a press accepted while clocked_in or on_break hands create-stamp a  *)
(* chain_start_stamp_id equal to the latest stamp's chainStartStampId or,  *)
(* when that is absent, to the latest stamp's id.                          *)
(***************************************************************************)
C3_ChainIdCarried ==
    LET rec == proc["user"] IN
    (AcceptedPress(rec) /\ rec.seen.status \in {"clocked_in", "on_break"})
    => /\ rec.req.json.chainStartStampId # JNone
       /\ rec.req.json.chainStartStampId = ChainOf(rec.seen.latest_stamp)

(***************************************************************************)
(* C4: when the action needs a chain id and none can be read from the      *)
(* latest stamp, the press fails and no create-stamp request is sent.      *)
(***************************************************************************)
C4_FailFastWithoutChain ==
    LET rec == proc["user"] IN
    (/\ rec.op = "press"
     /\ rec.seen.status \in {"clocked_in", "on_break"}
     /\ <<rec.seen.status, rec.stamp_type>> \in AcceptedPairs
     /\ _extract_chain_start(rec.seen.latest_stamp) = JNone)
    => /\ ~HasSent(rec.log)
       /\ rec.pc = "done" => rec.result \notin {"", "ok"}

(***************************************************************************)
(* C5: a press is accepted exactly for the five legal (status, action)     *)
(* pairs; for the other four it raises and makes no network call.          *)
(***************************************************************************)
C5_TransitionTable ==
    LET rec == proc["user"] IN
    rec.op = "press" =>
        IF <<rec.seen.status, rec.stamp_type>> \in AcceptedPairs
        THEN /\ rec.log # <<>>
             /\ rec.req.method = "POST"
             /\ rec.req.json.stampType = rec.stamp_type
        ELSE /\ rec.pc = "done"
             /\ rec.result = "HomeAssistantError"
             /\ rec.log = <<>>
             /\ rec.req = NoRequest

C5_Witness ==
    LET rec == proc["user"] IN
    /\ rec.op = "press"
    /\ rec.seen.status = "on_break"
    /\ rec.stamp_type = STAMP_TYPE_START_BREAK
    /\ rec.result = "HomeAssistantError"

(***************************************************************************)
(* C6: start_work pressed while clocked_out calls create-stamp without a   *)
(* chain_start_stamp_id and without the allocation date of the latest      *)
(* stamp, whatever that stamp contains.                                    *)
(***************************************************************************)
C6_NewChainCarriesNothing ==
    LET rec == proc["user"] IN
    (/\ rec.op = "press"
     /\ rec.seen.status = "clocked_out"
     /\ rec.stamp_type = STAMP_TYPE_START_WORK)
    => /\ rec.log # <<>>
       /\ rec.req.json.chainStartStampId = JNone
       /\ rec.req.json.allocationDate = DateOf(rec.req.json.timestamp)

C6_Witness ==
    LET rec == proc["user"] IN
    /\ rec.op = "press"
    /\ rec.seen.status = "clocked_out"
    /\ rec.stamp_type = STAMP_TYPE_START_WORK
    /\ rec.seen.latest_stamp.id = JInt(42)
    /\ rec.seen.latest_stamp.allocationDate = JStr("2024-05-01")
    /\ HasSent(rec.log)

(***************************************************************************)
(* C7: every create-stamp request sent for a follow-up stamp carries       *)
(* chainStartStampId equal to the id of the chain's first stamp, whether a *)
(* button or the create_stamp service issued it.                           *)
(***************************************************************************)
\* Stated for the snapshots in which the chain's first stamp is known (the
\* latest stamp has an id).
C7_FollowUpCarriesChain ==
    \A p \in Procs :
        LET rec == proc[p] IN
        (/\ rec.op \in {"press", "service"}
         /\ HasSent(rec.log)
         /\ coord.data.latest_stamp.id # JNone
         /\ FollowUp(rec.stamp_type, coord.data.status))
        => /\ rec.req.json.chainStartStampId # JNone
           /\ rec.req.json.chainStartStampId = ChainOf(coord.data.latest_stamp)

(***************************************************************************)
(* C8: an illegal transition is refused with a local error before any      *)
(* network call on every path that creates a stamp, the service included.  *)
(***************************************************************************)
C8_IllegalRefusedEverywhere ==
    \A p \in Procs :
        LET rec == proc[p] IN
        (/\ rec.op \in {"press", "service"}
         /\ coord.data.has
         /\ <<coord.data.status, rec.stamp_type>> \notin AcceptedPairs)
        => /\ rec.log = <<>>
           /\ rec.pc = "done" /\ rec.result \notin {"", "ok"}

(***************************************************************************)
(* C9: an accepted follow-up press whose latest stamp has an               *)
(* allocationDate sends that allocationDate unchanged.                     *)
(***************************************************************************)
C9_AllocationDateCarried ==
    LET rec == proc["user"] IN
    (/\ AcceptedPress(rec)
     /\ rec.seen.status \in {"clocked_in", "on_break"}
     /\ rec.seen.latest_stamp.allocationDate.t = "str"
     /\ rec.seen.latest_stamp.allocationDate.s # "")
    => rec.req.json.allocationDate = rec.seen.latest_stamp.allocationDate.s

(***************************************************************************)
(* C10: async_ensure_logged_in logs in exactly when there is no token, no  *)
(* expiration, or the expiration is less than 300 seconds after now;       *)
(* otherwise it makes no call at all (the request is what follows).        *)
(***************************************************************************)
\* The steps in which p runs async_ensure_logged_in: the start of a request
\* and the retry after a re-login that succeeded.
EnsureRuns(p) ==
    \/ proc[p].pc = "idle" /\ proc'[p].pc \in {"login_wait", "req_wait"}
    \/ /\ proc[p].pc = "login_wait" /\ proc[p].why = "relogin"
       /\ proc'[p] # proc[p] /\ proc'[p].pc \in {"login_wait", "req_wait"}

C10_EnsureLoggedIn ==
    [][\A p \in Procs :
          EnsureRuns(p) =>
              LET due == \/ ~token'.set
                         \/ token_expiration' = JNone
                         \/ token_expiration'.i < now' + 300
              IN IF due
                 THEN /\ proc'[p].pc = "login_wait" /\ proc'[p].why = "ensure"
                      /\ proc'[p].log[Len(proc'[p].log)] = Event("login", 0)
                 ELSE /\ proc'[p].pc = "req_wait"
                      /\ proc'[p].log[Len(proc'[p].log)] = Event("send", 0)
                      /\ Cardinality(Indices(proc'[p].log, "login")) =
                         Cardinality(Indices(proc[p].log, "login"))]_vars

\* A request that went out without a login although the token was exactly
\* at the margin.
C10_Witness ==
    \E p \in Procs :
        /\ proc[p].pc = "req_wait"
        /\ proc[p].log = <<Event("send", 0)>>
        /\ token.set
        /\ token_expiration # JNone
        /\ token_expiration.i - now = 300

\* The last event of a log, or the empty event of an empty log.
LastEvent(log) == IF log = <<>> THEN Event("", 0) ELSE log[Len(log)]

\* Events that answer an authorized request, in order.
Answers(log) ==
    SelectSeq(log, LAMBDA ev : ev.e \in {"response", "client_error", "timeout"})

\* Step p takes the successful answer to a login POST.
LoginSucceeds(p) ==
    /\ proc[p].pc = "login_wait"
    /\ Len(proc'[p].log) > Len(proc[p].log)
    /\ proc'[p].log[Len(proc[p].log) + 1] = Event("login_ok", 200)

\* A new client object replaces the old one (setup runs again).
ClientRebuilt ==
    /\ proc["coordinator"].pc = "done"
    /\ proc'["coordinator"].pc = "idle"
    /\ setup.phase = "first_refresh"
    /\ token' = NoToken

C13_TimeoutIsConnectionError ==
    \A p \in Procs :
        (/\ proc[p].pc = "done"
         /\ LastEvent(proc[p].log) \in
              {Event("login_timeout", 0), Event("timeout", 0)})
        => proc[p].client_err = "CrewmeisterConnectionError"

C15_AtMostTwoRequests ==
    /\ [](\A p \in Procs :
            LET log == proc[p].log
                sends == Cardinality(Indices(log, "send"))
                answers == Answers(log)
            IN /\ sends <= 2
               /\ Len(log) <= 11
               /\ (answers # <<>> /\ answers[1] # Event("response", 401))
                    => (sends = 1 /\ proc[p].pc = "done"))
    /\ [][\A p \in Procs :
            (proc[p].pc \in {"login_wait", "req_wait"} /\ proc'[p] # proc[p])
            => Len(proc'[p].log) > Len(proc[p].log)]_vars

\* A request answered 403 ended after that one request.
C15_Witness ==
    \E p \in Procs :
        /\ proc[p].pc = "done"
        /\ Answers(proc[p].log) = <<Event("response", 403)>>
        /\ Cardinality(Indices(proc[p].log, "send")) = 1

\* C17: the published status is _derive_status of the latest stamp of the
\* same snapshot, and the two flags say whether that status is clocked_in
\* and on_break.
C17_SnapshotConsistent ==
    coord.data.has =>
        /\ coord.data.status = _derive_status(coord.data.latest_stamp)
        /\ coord.data.is_clocked_in = (coord.data.status = "clocked_in")
        /\ coord.data.is_on_break = (coord.data.status = "on_break")

\* A refresh has just published a snapshot of a break.
C17_Witness ==
    /\ proc["coordinator"].pc = "done"
    /\ proc["coordinator"].result = "ok"
    /\ coord.data.has
    /\ coord.data.status = "on_break"
    /\ ~coord.data.is_clocked_in
    /\ coord.data.is_on_break

\* C16: _derive_status returns on_break for an open START_BREAK stamp,
\* clocked_in for an open START_WORK stamp and clocked_out for everything
\* else: no stamp, CLOCK_OUT, a status that is not OPEN, an unknown or
\* missing type or status.  It always returns one of the three values and
\* the call changes nothing but its own result.
C16_DeriveStatusTable ==
    /\ [](call.ret # "" =>
            call.ret =
              (CASE call.arg.present /\ call.arg.stampStatus = "OPEN"
                      /\ call.arg.stampType = "START_BREAK" -> "on_break"
                 [] call.arg.present /\ call.arg.stampStatus = "OPEN"
                      /\ call.arg.stampType = "START_WORK" -> "clocked_in"
                 [] OTHER -> "clocked_out"))
    /\ [][ /\ call'.arg = call.arg
           /\ UNCHANGED <<now, token, token_payload, token_expiration, identity,
                          coord, setup, proc, account, absence_types>> ]_vars

\* The function has been called on an open stamp of an unknown type.
C16_Witness ==
    /\ call.ret = "clocked_out"
    /\ call.arg.present
    /\ call.arg.stampType = "OTHER"
    /\ call.arg.stampStatus = "OPEN"

\* Step p is the call of op on an idle client.
Calls(p, op) == proc[p].pc = "idle" /\ proc'[p].op = op

\* C18: async_create_stamp with a stamp type outside the three known ones
\* raises a local ValueError: nothing is written to the network log, no
\* request is built, and the call leaves the token state and the identity
\* cache as they were.
C18_InvalidTypeIsLocal ==
    /\ [](\A p \in Procs :
            (/\ proc[p].op = "create_stamp"
             /\ proc[p].stamp_type \notin {"START_WORK", "START_BREAK", "CLOCK_OUT"})
            => /\ proc[p].pc = "done"
               /\ proc[p].client_err = "ValueError"
               /\ proc[p].log = <<>>
               /\ proc[p].req = NoRequest)
    /\ [][\A p \in Procs :
            (/\ Calls(p, "create_stamp")
             /\ proc'[p].stamp_type \notin {"START_WORK", "START_BREAK", "CLOCK_OUT"})
            => UNCHANGED <<token, token_payload, token_expiration, identity>>]_vars

\* The call was refused on a client that would have had to log in and to
\* look the identity up.
C18_Witness ==
    /\ proc["user"].op = "create_stamp"
    /\ proc["user"].stamp_type = "OTHER"
    /\ proc["user"].client_err = "ValueError"
    /\ ~token.set
    /\ ~identity.set

\* C19: a resolved identity never changes; async_get_identity on a client
\* that has one returns it at once without any network call, and
\* async_create_stamp on such a client looks nothing up and sends the ids of
\* that identity.
C19_IdentityCached ==
    /\ [](\A p \in Procs :
            (proc[p].stage = "identity" /\ proc[p].pc \in {"login_wait", "req_wait"})
            => ~identity.set)
    /\ [][ /\ identity.set => identity' = identity
           /\ \A p \in Procs :
                /\ (Calls(p, "get_identity") /\ identity.set)
                   => /\ proc'[p].pc = "done"
                      /\ proc'[p].result = "ok"
                      /\ proc'[p].ret = identity
                      /\ proc'[p].log = <<>>
                /\ (Calls(p, "create_stamp") /\ identity.set /\ proc'[p].pc # "done")
                   => /\ Indices(proc'[p].log, "get_latest_stamp") = {}
                      /\ proc'[p].req.method = "POST"
                      /\ proc'[p].req.json.userId = identity.user_id
                      /\ proc'[p].req.json.crewId = identity.crew_id
         ]_vars

\* The identity came from a stamp lookup, the client has since logged in
\* with a token without id claims, and async_get_identity has answered from
\* the cache.
C19_Witness ==
    /\ proc["user"].op = "get_identity"
    /\ proc["user"].pc = "done"
    /\ proc["user"].log = <<>>
    /\ proc["user"].ret = [set |-> TRUE, user_id |-> 7, crew_id |-> 42]
    /\ identity = proc["user"].ret
    /\ token.segments = 3
    /\ token_payload.userId = JNone

\* C20: async_get_identity on a client without identity calls
\* async_get_latest_stamp at most once, and exactly when the claims of the
\* stored payload do not give both ids; CrewmeisterMissingIdentity is raised
\* exactly when an id is still missing after the lookup, and then the cache
\* stays empty.
C20_UncachedIdentity ==
    /\ [](\A p \in Procs :
            LET rec == proc[p]
                lookups == Cardinality(Indices(rec.log, "get_latest_stamp"))
                missing == ~Truthy(rec.ids.user_id) \/ ~Truthy(rec.ids.crew_id)
            IN /\ lookups <= 1
               /\ rec.client_err = "CrewmeisterMissingIdentity"
                    => (lookups = 1 /\ missing /\ ~identity.set)
               /\ (/\ rec.pc = "done"
                   /\ rec.stage = "identity"
                   /\ LastEvent(rec.log) = Event("response", 200)
                   /\ missing)
                    => rec.client_err = "CrewmeisterMissingIdentity")
    /\ [][\A p \in Procs :
            (Calls(p, "get_identity") /\ ~identity.set)
            => LET claimed == _extract_identity_from_payload(token_payload)
                   complete == Truthy(claimed.user_id) /\ Truthy(claimed.crew_id)
               IN IF complete
                  THEN /\ proc'[p].log = <<>>
                       /\ proc'[p].result = "ok"
                       /\ identity'.set
                       /\ proc'[p].ret = identity'
                  ELSE /\ Indices(proc'[p].log, "get_latest_stamp") # {}
                       /\ proc'[p].pc \in {"login_wait", "req_wait"}
                       /\ ~identity'.set
         ]_vars

\* The claims gave the user id, the stamp of the lookup had no crew id, and
\* the call ended in CrewmeisterMissingIdentity.
C20_Witness ==
    /\ proc["user"].op = "get_identity"
    /\ proc["user"].client_err = "CrewmeisterMissingIdentity"
    /\ LastEvent(proc["user"].log) = Event("response", 200)
    /\ Truthy(proc["user"].ids.user_id)
    /\ ~Truthy(proc["user"].ids.crew_id)
    /\ ~identity.set

\* C21: on a client built without identity, async_get_identity returns the
\* ids of the claims of the account's JWT; an id of the latest stamp is
\* used only where the claims give none.
C21_ClaimsBeforeStamp ==
    \A p \in Procs :
        LET rec == proc[p]
            claimed == _extract_identity_from_payload(Claims(JNone, account))
        IN (/\ rec.op = "get_identity"
            /\ rec.pc = "done"
            /\ rec.result = "ok"
            /\ identity # EntryIdentity
            /\ token.segments = 3)
           => /\ Truthy(claimed.user_id) => rec.ret.user_id = claimed.user_id.i
              /\ Truthy(claimed.crew_id) => rec.ret.crew_id = claimed.crew_id.i

\* The calls of async_get_absence_type a handler made, in order (the id of
\* each is the status of its event), and its fetches of one id.
AbsenceCalls(log) == SelectSeq(log, LAMBDA ev : ev.e = "get_absence_type")
Fetches(log, type_id) ==
    Cardinality({ i \in DOMAIN log : log[i] = Event("fetch", type_id) })

\* The first two calls of the handler have returned, they were for the same
\* id, and the first of them went to the network.
TwoCallsSameId(rec) ==
    /\ Len(rec.returns) >= 2
    /\ AbsenceCalls(rec.log)[1].status = AbsenceCalls(rec.log)[2].status
    /\ rec.log[2] = Event("fetch", AbsenceCalls(rec.log)[1].status)

C23_FetchFailureSwallowed ==
    \A p \in Procs :
        (proc[p].op = "absences_to_events" /\ proc[p].pc = "done")
        => /\ proc[p].result = "ok"
           /\ proc[p].todo = <<>>
           /\ Len(proc[p].returns) = Len(AbsenceCalls(proc[p].log))

\* The usable translations of info (non-empty strings), those of
\* translations before those of nameTranslations.
UsableTranslations(info) ==
    SelectSeq(info.translations.items \o info.nameTranslations.items,
              LAMBDA it : it.value.t = "str" /\ it.value.s # "")

\* The name the stated order chooses for a configured language: a
\* translation under the full tag, else one under the primary subtag, else
\* the localized-name field, else name, displayName, absenceTypeName.
NameByPrecedence(info, language) ==
    LET tag == Dashed(KeyLower(language))
        full == SelectSeq(UsableTranslations(info),
                          LAMBDA it : Dashed(KeyLower(it.key)) = tag)
        primary == SelectSeq(UsableTranslations(info),
                             LAMBDA it : PrimaryOf(Dashed(KeyLower(it.key))) = PrimaryOf(tag))
    IN IF full # <<>> THEN full[1].value
       ELSE IF primary # <<>> THEN primary[1].value
       ELSE IF Truthy(info.displayNameLocalized) THEN info.displayNameLocalized
       ELSE IF Truthy(info.nameLocalized) THEN info.nameLocalized
       ELSE IF Truthy(info.name) THEN info.name
       ELSE IF Truthy(info.displayName) THEN info.displayName
       ELSE info.absenceTypeName

\* C24: with a configured language, async_get_absence_type_name returns the
\* first available of: the translation under the full language tag, the one
\* under the primary subtag, the localized-name field, name, displayName,
\* absenceTypeName.
C24_NamePrecedence ==
    (call.fn = "async_get_absence_type_name" /\ call.ret # Pending
       /\ call.arg.language # "")
    => call.ret = NameByPrecedence(call.arg.info, call.arg.language)

\* The sources of an error detail in the stated order, each "" when the body
\* does not offer it: the string body, the first non-empty string among the
\* six keys, the messages of the errors list, the errorCode string.
StatedSources(body) ==
    << IF body.kind = "str" THEN body.s ELSE "",
       IF body.kind = "dict" /\ \E k \in 1..Len(DetailKeys) : NonEmptyStr(body.d[DetailKeys[k]])
       THEN LET first == CHOOSE k \in 1..Len(DetailKeys) :
                             /\ NonEmptyStr(body.d[DetailKeys[k]])
                             /\ \A j \in 1..(k - 1) : ~NonEmptyStr(body.d[DetailKeys[j]])
            IN body.d[DetailKeys[first]].s
       ELSE "",
       IF body.kind = "dict" /\ ErrorMessages(body.d.errors) # <<>>
       THEN Join(ErrorMessages(body.d.errors)) ELSE "",
       IF body.kind = "dict" /\ body.d.errorCode.has /\ body.d.errorCode.v.t = "str"
       THEN body.d.errorCode.v.s ELSE "" >>

\* The items of a list body that are not empty, each as text.
ListSource(body) ==
    IF body.kind = "list" /\ SelectSeq(body.l, Truthy) # <<>>
    THEN Join([k \in 1..Len(SelectSeq(body.l, Truthy)) |-> PyStr(SelectSeq(body.l, Truthy)[k])])
    ELSE ""

\* The first source that is there, "" when none is.
FirstAvailable(sources) ==
    IF \E k \in 1..Len(sources) : sources[k] # ""
    THEN sources[CHOOSE k \in 1..Len(sources) :
                     sources[k] # "" /\ \A j \in 1..(k - 1) : sources[j] = ""]
    ELSE ""

MessageWith(status, detail) ==
    IF detail = "" THEN "Crewmeister API returned " \o StatusText(status)
    ELSE "Crewmeister API returned " \o StatusText(status) \o ": " \o detail

\* C25 as stated: the detail of an HTTP error is the first available of the
\* string body, the six keys in order, the joined errors list and the
\* errorCode string; a body that offers none of these gives the generic
\* message without detail.
C25_DetailSources ==
    (call.fn = "_request_json" /\ call.ret # "")
    => call.ret = MessageWith(call.arg.status, FirstAvailable(StatedSources(call.arg.body)))

\* C25 amended: the same with one more source after the errorCode string,
\* the non-empty items of a list body joined with "; ".
C25_DetailSourcesAndList ==
    (call.fn = "_request_json" /\ call.ret # "")
    => call.ret = MessageWith(call.arg.status,
                              FirstAvailable(StatedSources(call.arg.body)
                                             \o <<ListSource(call.arg.body)>>))

C25_Witness ==
    /\ call.fn = "_request_json"
    /\ call.arg.body.kind = "list"
    /\ call.ret = "Crewmeister API returned 500: a; b"

\* C26: for a token that has not exactly three segments, or whose middle
\* segment is no valid base64url or does not decode to JSON,
\* decode_jwt_payload returns the empty mapping and does not raise: the
\* login that received it returns, with an empty payload and no expiration.
C26_MalformedTokenEmptyPayload ==
    (/\ call.fn = "async_login" /\ call.ret # ""
     /\ (call.arg.segments # 3 \/ call.arg.middle # "json"))
    => /\ call.ret = "returned"
       /\ token = call.arg
       /\ token_payload = EmptyPayload
       /\ token_expiration = JNone

\* The UTC instant of a datetime: whole seconds from 1970-01-01T00:00:00Z
\* and the microseconds past them.
InstantOf(dt) == <<dt.wall - dt.utcoffset, dt.microsecond>>

\* C27: parsing the timestamp text create_stamp sends gives the UTC instant
\* of the timestamp truncated to whole seconds, whatever its UTC offset and
\* its sub-second part.
C27_TimestampRoundTrip ==
    (call.fn = "timestamp" /\ call.ret.stage = "parsed")
    => InstantOf(call.ret.parsed) = <<InstantOf(call.arg)[1], 0>>

\* A timestamp east of UTC with a sub-second part, sent with suffix Z and
\* parsed again.
C27_Witness ==
    /\ call.fn = "timestamp" /\ call.ret.stage = "parsed"
    /\ call.arg.utcoffset = 19800 /\ call.arg.microsecond = 999999
    /\ call.ret.sent.zone = "Z"
    /\ call.ret.sent.day = -1

\* The position of the last event e of a log, 0 when there is none.
LastIndex(log, e) ==
    IF Indices(log, e) = {} THEN 0
    ELSE CHOOSE i \in Indices(log, e) : \A j \in Indices(log, e) : j <= i

\* The create-stamp call of handler record rec succeeded: the last request
\* it sent was the POST and its answer is no error status.
StampCreated(rec) ==
    /\ rec.op \in {"press", "service"}
    /\ rec.req.method = "POST"
    /\ LastIndex(rec.log, "response") > LastIndex(rec.log, "send")
    /\ rec.log[LastIndex(rec.log, "response")].status < 400

\* C28: a successful create-stamp call of a button press or of the
\* create_stamp service is followed, before the handler completes, by a
\* refresh request to the coordinator; and no refresh is requested otherwise.
C28_RefreshAfterWrite ==
    \A p \in Procs :
        LET rec == proc[p] IN
        /\ StampCreated(rec)
           => /\ rec.pc = "done" /\ rec.result = "ok"
              /\ LastIndex(rec.log, "request_refresh") =
                     LastIndex(rec.log, "response") + 1
        /\ LastIndex(rec.log, "request_refresh") # 0 => StampCreated(rec)

\* The service created a stamp on its second attempt and asked for the
\* refresh.
C28_Witness ==
    /\ proc["user"].op = "service"
    /\ StampCreated(proc["user"])
    /\ First401(proc["user"].log) # 0
    /\ LastEvent(proc["user"].log) = Event("request_refresh", 0)

\* Step: async_setup_entry takes the failure of its first refresh, the
\* client having raised client_err.
SetupFails(client_err) ==
    /\ proc["coordinator"].pc = "done"
    /\ proc["coordinator"].op = "refresh"
    /\ proc["coordinator"].client_err = client_err
    /\ setup.phase = "first_refresh"
    /\ proc'["coordinator"].pc = "idle"

\* C29: when the first refresh of the setup fails because the login is
\* rejected (CrewmeisterAuthError), the setup ends in ConfigEntryAuthFailed
\* and not in ConfigEntryNotReady.
C29_AuthErrorIsAuthFailed ==
    [][SetupFails("CrewmeisterAuthError") => setup'.outcome = "ConfigEntryAuthFailed"]_vars

\* C30: the client has no lock.  Each of two concurrent authorized requests
\* that gets 401 on its first attempt performs its own re-login: its next
\* step is a login call of its own, also when the other request has
\* replaced the rejected token already.
C30_EachRejectedRequestLogsIn ==
    \A p \in Procs :
        First401(proc[p].log) # 0
        => /\ Len(proc[p].log) > First401(proc[p].log)
           /\ proc[p].log[First401(proc[p].log) + 1] = Event("login", 0)

\* Both requests carried the token in place and both got 401: each has its
\* own login call in flight, two for the one rejected token.
C30_Witness ==
    /\ \A p \in Procs :
          /\ proc[p].pc = "login_wait" /\ proc[p].why = "relogin"
          /\ LastEvent(proc[p].log) = Event("login", 0)
          /\ proc[p].log[Len(proc[p].log) - 1] = Event("response", 401)
    /\ proc["user"].req.bearer = proc["coordinator"].req.bearer
    /\ token = proc["user"].req.bearer
    /\ token.set

\* Step: handler p sends the request it retries after a 401.
SendsRetry(p) ==
    /\ proc'[p].pc = "req_wait"
    /\ ~proc'[p].retry
    /\ Len(proc'[p].log) > Len(proc[p].log)
    /\ LastEvent(proc'[p].log) = Event("send", 0)

\* C31: the request retried after a 401 carries the token the re-login
\* returned, not the rejected one: it goes out in the step that takes a
\* successful login answer, with the token stored in that step, and not
\* with the Authorization entry the caller passed to the first attempt.
C31_RetryCarriesNewToken ==
    [][\A p \in Procs :
          SendsRetry(p)
          => /\ LoginSucceeds(p)
             /\ First401(proc[p].log) # 0
             /\ proc'[p].req.bearer = token'
             /\ token'.set
             /\ proc[p].rejected = CallerToken => proc'[p].req.bearer # proc[p].rejected
      ]_vars

\* The first attempt went out with the caller's own Authorization entry and
\* was rejected; the retry is out with the token of the re-login.
C31_Witness ==
    /\ proc["user"].pc = "req_wait"
    /\ ~proc["user"].retry
    /\ proc["user"].log = <<Event("login", 0), Event("login_ok", 200), Event("send", 0),
                            Event("response", 401), Event("login", 0),
                            Event("login_ok", 200), Event("send", 0)>>
    /\ proc["user"].rejected = CallerToken
    /\ proc["user"].req.bearer = token
    /\ token # CallerToken

\* Step: handler p sends an authorized request.
Sends(p) ==
    /\ Len(proc'[p].log) > Len(proc[p].log)
    /\ LastEvent(proc'[p].log) = Event("send", 0)

\* C32: every authorized request goes out with the token the client holds
\* at that moment, and the client holds one: no request is sent without
\* token, whatever logins, failed logins and requests came before.
C32_BearerIsCurrentToken ==
    [][\A p \in Procs :
          Sends(p) => /\ token'.set
                      /\ proc'[p].req.bearer = token'
      ]_vars

\* A client built with a stored payload that carries an expiry, and no
\* token: its first request logged in before it went out.
C32_Witness ==
    /\ setup.token_payload.exp # JNone
    /\ proc["user"].pc = "req_wait"
    /\ proc["user"].log = <<Event("login", 0), Event("login_ok", 200), Event("send", 0)>>
    /\ proc["user"].req.bearer = token
    /\ token.set

\* The transition table on the stamps themselves: the stamp types that may
\* follow a stamp of a type.
LegalAfter ==
    { <<STAMP_TYPE_START_WORK, STAMP_TYPE_START_BREAK>>,
      <<STAMP_TYPE_START_WORK, STAMP_TYPE_CLOCK_OUT>>,
      <<STAMP_TYPE_START_BREAK, STAMP_TYPE_START_WORK>>,
      <<STAMP_TYPE_START_BREAK, STAMP_TYPE_CLOCK_OUT>>,
      <<STAMP_TYPE_CLOCK_OUT, STAMP_TYPE_START_WORK>> }

\* C33: however presses and refreshes interleave, no press sends a
\* create-stamp request that is illegal after the stamp the previous
\* create-stamp request created (two START_BREAK in a row, START_WORK after
\* START_WORK, ...).
C33_SentStampsFollowTable ==
    [][\A p \in Procs :
          (Sends(p) /\ proc'[p].op = "press" /\ created # "")
          => <<created, proc'[p].stamp_type>> \in LegalAfter
      ]_vars

\* Step: handler p takes the answer 200 to its fetch of type_id.
FetchAnswered(p, type_id) ==
    /\ proc[p].pc = "req_wait"
    /\ proc[p].stage = "absence_type"
    /\ Head(proc[p].todo) = type_id
    /\ Len(proc'[p].log) > Len(proc[p].log)
    /\ proc'[p].log[Len(proc[p].log) + 1].e = "response"
    /\ proc'[p].log[Len(proc[p].log) + 1].status < 400

\* The cache holds only mappings the server can answer with.
OnlyMappingsCached ==
    \A type_id \in TypeIds :
        absence_types[type_id].has
        => /\ absence_types[type_id].info.mapping
           /\ absence_types[type_id].info \in AbsenceBodies

\* The first call of the handler went to the network and returned None, and
\* a second call for the same id has returned.
SecondCallAfterFailure(rec) == TwoCallsSameId(rec) /\ ~rec.returns[1].mapping

\* C34 as stated: the cache only ever holds mapping responses of successful
\* fetches, an entry once stored is never replaced or removed, and a call
\* for an id whose fetch failed goes to the network again.
C34_FailuresNotMemoized ==
    /\ [](OnlyMappingsCached
          /\ \A p \in Procs :
                SecondCallAfterFailure(proc[p])
                => Fetches(proc[p].log, AbsenceCalls(proc[p].log)[1].status) = 2)
    /\ [][\A type_id \in TypeIds :
             /\ absence_types'[type_id] # absence_types[type_id]
                => \E p \in Procs : FetchAnswered(p, type_id)
             /\ absence_types[type_id].has
                => absence_types'[type_id] = absence_types[type_id]
         ]_vars

\* C35: in every snapshot is_clocked_in and is_on_break are never both
\* true, and the working binary sensor is on exactly when the status is
\* clocked_in: it is off for on_break and for clocked_out.
C35_WorkingSensorFollowsStatus ==
    coord.data.has =>
        /\ ~(coord.data.is_clocked_in /\ coord.data.is_on_break)
        /\ (is_on(coord.data) = "True") = (coord.data.status = "clocked_in")
        /\ coord.data.status \in {"on_break", "clocked_out"}
           => is_on(coord.data) = "False"

\* A refresh has published the snapshot of a break and the sensor reads off.
C35_Witness ==
    /\ proc["coordinator"].pc = "done"
    /\ proc["coordinator"].result = "ok"
    /\ coord.data.has
    /\ coord.data.status = "on_break"
    /\ coord.data.is_on_break
    /\ is_on(coord.data) = "False"

\* The argument is none of the forms the function reads: not a timedelta,
\* not a number, and no text with a numeric piece.
Unparsable(value) ==
    \/ value.t = "other"
    \/ /\ value.t = "str"
       /\ \A i \in 1..Len(value.parts) : value.parts[i].num \in {"text", "empty"}

\* C36: every call of coerce_update_interval_seconds returns an integer
\* within [MIN_UPDATE_INTERVAL_SECONDS, MAX_UPDATE_INTERVAL_SECONDS]; an
\* argument that cannot be parsed gives what the default of 60 seconds
\* gives, and the function returns its own result unchanged.
C36_IntervalWithinBounds ==
    (call.fn = "coerce_update_interval_seconds" /\ call.ret # NotCalled)
    => /\ call.ret.kind = "int"
       /\ MIN_UPDATE_INTERVAL_SECONDS.defined
       /\ MAX_UPDATE_INTERVAL_SECONDS.defined
       /\ MIN_UPDATE_INTERVAL_SECONDS.value <= call.ret.value
       /\ call.ret.value <= MAX_UPDATE_INTERVAL_SECONDS.value
       /\ Unparsable(call.arg)
          => call.ret = coerce_update_interval_seconds(
                            IntValue(DEFAULT_UPDATE_INTERVAL_SECONDS))
       /\ coerce_update_interval_seconds(IntValue(call.ret.value)) = call.ret

====
